---------------------------- MODULE Spec2Model ----------------------------
(***************************************************************************)
(* Model of the fanacrypt core: the Schnorr-style zero-knowledge password   *)
(* proof of lib/utils/zkp.ts, the server actions of app/auth-actions       *)
(* (register, loginStep1, loginStep2, verifySession, logout,               *)
(* changePassphrase, isRegistered) with their in-memory challenge and      *)
(* session maps, and the file pipeline: the chunk splitters and            *)
(* combineFiles, handleUpload, UploadEncrypted and handleDownload.         *)
(*                                                                         *)
(* JavaScript strings are sequences of one-character strings; BigInt is    *)
(* Int.  A server action is a call slot whose pc moves from one await to   *)
(* the next: a database query is issued by the handler, executed by the    *)
(* database (DbSelect, DbInsert, DbUpdate, DbReject) and its result picked *)
(* up when the handler resumes, and handlers of other calls run between.   *)
(***************************************************************************)
EXTENDS Integers, Sequences, FiniteSets, TLC

VARIABLES
    now,             \* Date.now()
    ticks,           \* how many times the clock has advanced
    loginParameter,  \* rows of the login_parameter table
    loginChallenges, \* Map sessionId -> {V, c, expiresAt}
    sessions,        \* Map sessionToken -> {expiresAt}
    calls,           \* the server actions in flight, one per call slot
    nSessionIds,     \* sessionIds drawn so far by randomUUID in loginStep1
    minted,          \* history: per session token drawn by randomUUID in
                     \* loginStep2, the sessionId it was minted for
    verified,        \* history: the proofs (V, X, c, b) that serverVerify accepted
    zk,              \* one client-side run of the protocol functions
    codec,           \* one run of a splitter and of combineFiles
    blobs,           \* the files held by the storage backends, by key
    uploads,         \* rows of the uploads table
    up,              \* the upload in progress (handleUpload, UploadEncrypted)
    down,            \* the download in progress (handleDownload)
    sent,            \* history: per row of uploads, what its uploader sent
    del,             \* the deletion in progress (DeleteFile)
    get              \* the GetAllFiles or GetFile call in progress

\* the state of the file pipeline
fileVars == <<codec, blobs, uploads, up, down, sent, del, get>>

vars == <<now, ticks, loginParameter, loginChallenges, sessions,
          calls, nSessionIds, minted, verified, zk, fileVars>>

serverVars == <<now, ticks, loginParameter, loginChallenges, sessions,
                calls, nSessionIds, minted>>

---------------------------------------------------------------------------
(* Bounds of the model. *)

\* call slots: how many server actions may be in flight at once
MaxCalls == 2
\* sessionIds that loginStep1 calls may draw, under concurrent calls
MaxSessionIds == 1
\* sessionIds that loginStep1 calls may draw, with one call at a time
MaxClockSessionIds == 2
\* session tokens that loginStep2 calls may draw
MaxTokens == 2
\* the largest q of the groups the client-side run is made in
MaxGroupQ == 11
\* clock advances
MaxTicks == 2
\* SHA-256 values drawn for a passphrase in the client-side run
MaxHash == 11

---------------------------------------------------------------------------
(* Strings and BigInt. *)

Digits == <<"0", "1", "2", "3", "4", "5", "6", "7", "8", "9">>

IsDigit(ch) == \E d \in 1..10 : Digits[d] = ch

DigitVal(ch) == (CHOOSE d \in 1..10 : Digits[d] = ch) - 1

IsSpace(ch) == ch = " "

\* bigint.toString(): the decimal encoding
RECURSIVE toString(_)
toString(n) ==
    IF n < 0 THEN <<"-">> \o toString(-n)
    ELSE IF n < 10 THEN <<Digits[n + 1]>>
    ELSE toString(n \div 10) \o <<Digits[(n % 10) + 1]>>

RECURSIVE TrimLeft(_)
TrimLeft(s) ==
    IF s # <<>> /\ IsSpace(Head(s)) THEN TrimLeft(Tail(s)) ELSE s

RECURSIVE TrimRight(_)
TrimRight(s) ==
    IF s # <<>> /\ IsSpace(s[Len(s)])
    THEN TrimRight(SubSeq(s, 1, Len(s) - 1))
    ELSE s

RECURSIVE DecimalValue(_)
DecimalValue(s) ==
    IF s = <<>> THEN 0
    ELSE 10 * DecimalValue(SubSeq(s, 1, Len(s) - 1)) + DigitVal(s[Len(s)])

AllDigits(s) == s # <<>> /\ \A k \in 1..Len(s) : IsDigit(s[k])

\* BigInt(string): StringToBigInt.  White space is trimmed, the empty string
\* is 0n, an optional sign is followed by decimal digits, anything else is a
\* SyntaxError ([ok |-> FALSE]).
BigInt(s) ==
    LET t == TrimRight(TrimLeft(s)) IN
    IF t = <<>> THEN [ok |-> TRUE, v |-> 0]
    ELSE IF AllDigits(t) THEN [ok |-> TRUE, v |-> DecimalValue(t)]
    ELSE IF Head(t) = "-" /\ AllDigits(Tail(t))
         THEN [ok |-> TRUE, v |-> 0 - DecimalValue(Tail(t))]
    ELSE IF Head(t) = "+" /\ AllDigits(Tail(t))
         THEN [ok |-> TRUE, v |-> DecimalValue(Tail(t))]
    ELSE [ok |-> FALSE, v |-> 0]

\* a % m on BigInt: the remainder takes the sign of the dividend
JsRem(a, m) == IF a >= 0 THEN a % m ELSE 0 - ((0 - a) % m)

---------------------------------------------------------------------------
(* lib/utils/zkp.ts *)

\* The code's group is RFC 3526 group 14 (q a 2047-bit prime, p = 2q + 1,
\* g = 2).  The model runs the same code over small groups of the same
\* shape: q prime, p = 2q + 1 prime, 2 of order q modulo p.
Group(qq) == [p |-> 2 * qq + 1, q |-> qq, g |-> 2]

\* the group of the model's server and of its clients
getPublicParameters == Group(3)

\* modPow(base, exponent, modulus): square and multiply, as the loop runs
RECURSIVE modPowLoop(_, _, _, _)
modPowLoop(result, base, exponent, modulus) ==
    IF exponent > 0
    THEN modPowLoop(IF exponent % 2 = 1 THEN JsRem(result * base, modulus)
                                        ELSE result,
                    JsRem(base * base, modulus),
                    exponent \div 2,
                    modulus)
    ELSE result

\* variant of modPow without its first line, if (modulus === 1n) return 0n:
\* C27 fails of it
modPowNoUnitModulus(base, exponent, modulus) ==
    modPowLoop(1, JsRem(base, modulus), exponent, modulus)

\* the modPow of serverVerify
modPow(base, exponent, modulus) ==
    IF modulus = 1 THEN 0
    ELSE modPowLoop(1, JsRem(base, modulus), exponent, modulus)

\* the modPow of generatePublicKey and the modPow of clientLoginStep1: the
\* same lines as the one of serverVerify
modPowOfGeneratePublicKey(base, exponent, modulus) ==
    IF modulus = 1 THEN 0
    ELSE modPowLoop(1, JsRem(base, modulus), exponent, modulus)

modPowOfClientLoginStep1(base, exponent, modulus) ==
    IF modulus = 1 THEN 0
    ELSE modPowLoop(1, JsRem(base, modulus), exponent, modulus)

\* variant of KDF that leaves the hash modulo q - 1 as it is: C29 fails of it
KDFNoShift(hash, qq) == hash % (qq - 1)

\* KDF(passphrase, q), from the SHA-256 value of the passphrase
KDF(hash, qq) == (hash % (qq - 1)) + 1

\* variant of getSecureRandomBigInt that returns randomBigInt, not
\* randomBigInt + min: C33 fails of it
getSecureRandomBigIntNoMin(min, max) == 0..(max - min)

\* getSecureRandomBigInt(min, max): the values it can return
getSecureRandomBigInt(min, max) == min..max

\* bytesToBigInt(bytes): (acc << 8n) + BigInt(byte) from the left
RECURSIVE bytesToBigInt(_)
bytesToBigInt(bytes) ==
    IF bytes = <<>> THEN 0
    ELSE bytesToBigInt(SubSeq(bytes, 1, Len(bytes) - 1)) * 256 + bytes[Len(bytes)]

\* range.toString(2).length, for range > 0
RECURSIVE bitLength(_)
bitLength(n) == IF n < 2 THEN 1 ELSE 1 + bitLength(n \div 2)

\* Math.ceil(bitLength / 8) || 1
byteLength(range) ==
    LET n == (bitLength(range) + 7) \div 8 IN IF n = 0 THEN 1 ELSE n

\* variant of the loop condition of getSecureRandomBigInt under which no draw
\* is repeated: C28 fails of it
repeatDrawNever(randomBigInt, range) == FALSE

\* the loop condition of getSecureRandomBigInt: while (randomBigInt >= range)
repeatDraw(randomBigInt, range) == randomBigInt >= range

\* The functions of zkp.ts start with getPublicParameters(); each is modelled
\* with the triple P it got there as a parameter (...In), and as the code
\* runs it, with P == getPublicParameters.

\* generatePublicKey, from the SHA-256 value of the passphrase
generatePublicKeyIn(P, hash) ==
    modPowOfGeneratePublicKey(P.g, KDF(hash, P.q), P.p)

generatePublicKey(hash) == generatePublicKeyIn(getPublicParameters, hash)

\* clientLoginStep1 with the nonce v it drew
clientLoginStep1In(P, hash, v) ==
    [x |-> KDF(hash, P.q), v |-> v, V |-> modPowOfClientLoginStep1(P.g, v, P.p)]

clientLoginStep1(hash, v) == clientLoginStep1In(getPublicParameters, hash, v)

\* variant of clientLoginStep2In with v and x exchanged: C4 fails of it
clientLoginStep2Swapped(P, v, c, x) ==
    LET cBigInt == BigInt(c).v
    IN  JsRem(x + cBigInt * v, P.q)

\* clientLoginStep2(v, c, x), c being the challenge string of the server
clientLoginStep2In(P, v, c, x) ==
    LET cBigInt == BigInt(c).v
    IN  JsRem(v + cBigInt * x, P.q)

clientLoginStep2(v, c, x) == clientLoginStep2In(getPublicParameters, v, c, x)

\* variant of serverVerifyIn that leaves the challenge out: C5 fails of it
serverVerifyNoChallenge(P, V, X, c, b) ==
    LET bBigInt == BigInt(b)
        xBigInt == BigInt(X)
        left == modPow(P.g, bBigInt.v, P.p)
        right == JsRem(V * xBigInt.v, P.p)
    IN  IF ~bBigInt.ok \/ ~xBigInt.ok THEN "throw"
        ELSE IF left = right THEN "true"
        ELSE "false"

\* variant of serverVerify that accepts every proof: C6 fails of it
serverVerifyAcceptAll(V, X, c, b) == "true"

\* serverVerify(V, X, c, b) as loginStep2 calls it: V and c are BigInts, X is
\* the stored string and b the string of the request.  "throw" is the
\* SyntaxError of BigInt().
serverVerifyIn(P, V, X, c, b) ==
    LET bBigInt == BigInt(b)
        xBigInt == BigInt(X)
        left == modPow(P.g, bBigInt.v, P.p)
        right == JsRem(V * modPow(xBigInt.v, c, P.p), P.p)
    IN  IF ~bBigInt.ok \/ ~xBigInt.ok THEN "throw"
        ELSE IF left = right THEN "true"
        ELSE "false"

serverVerify(V, X, c, b) == serverVerifyIn(getPublicParameters, V, X, c, b)

---------------------------------------------------------------------------
(* app/auth-actions: state and helpers *)

CHALLENGE_EXPIRY_MS == 5 * 60 * 1000

SESSION_EXPIRY_MS == 24 * 60 * 60 * 1000

EmptyMap == [k \in {} |-> 0]

\* Map.set and Map.delete
MapSet(m, k, v) == [x \in DOMAIN m \cup {k} |-> IF x = k THEN v ELSE m[x]]

MapDelete(m, k) == [x \in DOMAIN m \ {k} |-> m[x]]

\* one loop of cleanupExpiredChallenges over a map, at time t
Sweep(m, t) == [x \in {y \in DOMAIN m : ~(t > m[y].expiresAt)} |-> m[x]]

\* variant of cleanupExpiredChallenges without its second loop, over the
\* sessions: C24 fails of it
cleanupChallengesOnly(ch, ss, t) ==
    [loginChallenges |-> Sweep(ch, t), sessions |-> ss]

\* cleanupExpiredChallenges(): both maps after the two loops
cleanupExpiredChallenges(ch, ss, t) ==
    [loginChallenges |-> Sweep(ch, t), sessions |-> Sweep(ss, t)]

\* a call slot with no server action in it
Idle == [op |-> "idle", pc |-> "idle", arg |-> <<>>, id |-> 0,
         rows |-> <<>>, chal |-> <<>>, ret |-> <<>>, pre |-> <<>>]

\* history: the clock, the table and the sessions as a call found them
Entry == <<[now |-> now, loginParameter |-> loginParameter, sessions |-> sessions]>>

\* a null, undefined or empty sessionToken
NoToken == 0 - 1

Slots == DOMAIN calls

InFlight(op) == Cardinality({i \in Slots : calls[i].op = op /\ calls[i].pc # "done"})

\* the value a server action resolves to
Failure(msg) == <<[success |-> FALSE, error |-> msg]>>

\* call i resolves to ret
Done(i, ret) ==
    calls' = [calls EXCEPT ![i].pc = "done", ![i].ret = ret]

\* a response is delivered before anything else happens
NoneDone == \A j \in Slots : calls[j].pc # "done"

\* a request is taken by the first free call slot
Free(i) ==
    /\ NoneDone
    /\ calls[i].op = "idle"
    /\ \A j \in Slots : j < i => calls[j].op # "idle"

\* variant of Catch, a catch block that reports success: C8 fails of it
CatchReportsSuccess(i, msg) == Done(i, <<[success |-> TRUE]>>)

\* the catch block of a server action: { success: false, error: error.message }
Catch(i, msg) == Done(i, Failure(msg))

---------------------------------------------------------------------------
(* Requests the clients may send. *)

\* strings no BigInt() accepts, and strings it accepts that no honest client
\* sends
Malformed == {<<"a", "b", "c">>}

\* publicKeyX / newPublicKeyX: generatePublicKey(pw).toString() of every
\* passphrase, the unit of the group, a malformed string
KeyInputs ==
    {toString(generatePublicKey(h)) : h \in 0..(getPublicParameters.q - 2)}
        \cup {toString(1)} \cup Malformed

\* the nonces the model's clients draw in clientLoginStep1
ClientNonces == {1}

\* V: clientLoginStep1(pw).V.toString(), or a malformed string
CommitInputs ==
    {toString(clientLoginStep1(0, v).V) : v \in ClientNonces} \cup Malformed

\* b: clientLoginStep2(v, c, x).toString() for every challenge c and every
\* passphrase, v.toString(), a negative number, a malformed string
ResponseInputs ==
    {toString(clientLoginStep2(v, toString(c), KDF(h, getPublicParameters.q))) :
        v \in ClientNonces, c \in 1..(getPublicParameters.q - 1), h \in 0..(getPublicParameters.q - 2)}
        \cup {toString(1), toString(0 - 1)} \cup Malformed

\* sessionId: 0 is a string loginStep1 never returned
SessionIdInputs == 0..nSessionIds

\* sessionToken: 0 is a string loginStep2 never returned
TokenInputs == {NoToken} \cup 0..Len(minted)

---------------------------------------------------------------------------
(* The login_parameter table. *)

\* db.select().from(loginParameter).where(eq(loginParameter.id, 1)).limit(1)
SelectRows ==
    LET hit == SelectSeq(loginParameter, LAMBDA r : r.id = 1)
    IN  IF hit = <<>> THEN <<>> ELSE <<hit[1]>>

\* what register, loginStep1, changePassphrase and isRegistered read of the
\* rows selected: existing.length
RowIds(rows) == [k \in 1..Len(rows) |-> [id |-> rows[k].id]]

\* the database runs the select of call i
DbSelect(i) ==
    /\ NoneDone
    /\ calls[i].pc = "select"
    /\ calls' = [calls EXCEPT ![i].pc = "selected",
                              ![i].rows = IF calls[i].op = "loginStep2"
                                          THEN SelectRows
                                          ELSE RowIds(SelectRows)]
    /\ UNCHANGED <<now, ticks, loginParameter, loginChallenges, sessions,
                   nSessionIds, minted>>
    /\ UNCHANGED <<verified, zk, fileVars>>

\* the primary key of login_parameter: a second row with the same id is refused
InsertConflicts(row) == \E k \in 1..Len(loginParameter) : loginParameter[k].id = row.id

\* the database runs db.insert(loginParameter).values({id: 1, publicKey}) of
\* call i; a refused insert rejects the promise and the action's catch returns
DbInsert(i) ==
    /\ NoneDone
    /\ calls[i].pc = "insert"
    /\ LET row == [id |-> 1, publicKey |-> calls[i].arg] IN
       IF InsertConflicts(row)
       THEN /\ Catch(i, "UNIQUE constraint failed")
            /\ UNCHANGED loginParameter
       ELSE /\ loginParameter' = Append(loginParameter, row)
            /\ calls' = [calls EXCEPT ![i].pc = "inserted"]
    /\ UNCHANGED <<now, ticks, loginChallenges, sessions, nSessionIds, minted>>
    /\ UNCHANGED <<verified, zk, fileVars>>

\* the database runs db.update(loginParameter).set({publicKey}).where(id = 1)
DbUpdate(i) ==
    /\ NoneDone
    /\ calls[i].pc = "update"
    /\ loginParameter' =
           [k \in 1..Len(loginParameter) |->
               IF loginParameter[k].id = 1
               THEN [loginParameter[k] EXCEPT !.publicKey = calls[i].arg]
               ELSE loginParameter[k]]
    /\ calls' = [calls EXCEPT ![i].pc = "updated"]
    /\ UNCHANGED <<now, ticks, loginChallenges, sessions, nSessionIds, minted>>
    /\ UNCHANGED <<verified, zk, fileVars>>

\* the database fails a query (I/O error): the promise rejects, nothing is
\* written, and the catch block of the action returns; isRegistered's catch
\* returns false
DbReject(i) ==
    /\ NoneDone
    /\ calls[i].pc \in {"select", "insert", "update"}
    /\ IF calls[i].op = "isRegistered"
       THEN Done(i, <<[success |-> FALSE]>>)
       ELSE Catch(i, "database error")
    /\ UNCHANGED <<now, ticks, loginParameter, loginChallenges, sessions,
                   nSessionIds, minted>>
    /\ UNCHANGED <<verified, zk, fileVars>>

---------------------------------------------------------------------------
(* register *)

RegisterCall(i, publicKeyX) ==
    /\ Free(i)
    /\ calls' = [calls EXCEPT ![i] =
           [Idle EXCEPT !.op = "register", !.pc = "select", !.arg = publicKeyX,
                        !.pre = Entry]]
    /\ UNCHANGED <<now, ticks, loginParameter, loginChallenges, sessions,
                   nSessionIds, minted>>
    /\ UNCHANGED <<verified, zk, fileVars>>

\* after the select: existing.length > 0 returns, else the insert is issued
RegisterCheck(i) ==
    /\ NoneDone
    /\ calls[i].op = "register" /\ calls[i].pc = "selected"
    /\ IF Len(calls[i].rows) > 0
       THEN Done(i, Failure("User already registered. Please login to change your passphrase."))
       ELSE calls' = [calls EXCEPT ![i].pc = "insert"]
    /\ UNCHANGED <<now, ticks, loginParameter, loginChallenges, sessions,
                   nSessionIds, minted>>
    /\ UNCHANGED <<verified, zk, fileVars>>

RegisterReturn(i) ==
    /\ NoneDone
    /\ calls[i].op = "register" /\ calls[i].pc = "inserted"
    /\ Done(i, <<[success |-> TRUE]>>)
    /\ UNCHANGED <<now, ticks, loginParameter, loginChallenges, sessions,
                   nSessionIds, minted>>
    /\ UNCHANGED <<verified, zk, fileVars>>

---------------------------------------------------------------------------
(* loginStep1 *)

LoginStep1Call(i, V) ==
    /\ Free(i)
    /\ calls' = [calls EXCEPT ![i] =
           [Idle EXCEPT !.op = "loginStep1", !.pc = "select", !.arg = V,
                        !.pre = Entry]]
    /\ UNCHANGED <<now, ticks, loginParameter, loginChallenges, sessions,
                   nSessionIds, minted>>
    /\ UNCHANGED <<verified, zk, fileVars>>

\* after the select: draw c, store the challenge under a new sessionId, sweep
LoginStep1Store(i) ==
    /\ NoneDone
    /\ calls[i].op = "loginStep1" /\ calls[i].pc = "selected"
    /\ IF Len(calls[i].rows) = 0
       THEN /\ Done(i, Failure("No public key registered. Please register first."))
            /\ UNCHANGED <<loginChallenges, sessions, nSessionIds>>
       ELSE \E c \in getSecureRandomBigInt(1, getPublicParameters.q - 1) :
            LET sessionId == nSessionIds + 1
                V == BigInt(calls[i].arg)
                stored == MapSet(loginChallenges, sessionId,
                                 [V |-> V.v, c |-> c,
                                  expiresAt |-> now + CHALLENGE_EXPIRY_MS])
                swept == cleanupExpiredChallenges(stored, sessions, now)
            IN  IF ~V.ok
                THEN /\ Catch(i, "SyntaxError: Cannot convert to a BigInt")
                     /\ UNCHANGED <<loginChallenges, sessions, nSessionIds>>
                ELSE /\ loginChallenges' = swept.loginChallenges
                     /\ sessions' = swept.sessions
                     /\ nSessionIds' = sessionId
                     /\ Done(i, <<[success |-> TRUE, challenge |-> toString(c),
                                   sessionId |-> sessionId]>>)
    /\ UNCHANGED <<now, ticks, loginParameter, minted>>
    /\ UNCHANGED <<verified, zk, fileVars>>

---------------------------------------------------------------------------
(* loginStep2 *)

\* variant of LoginStep2Call that does not look at expiresAt: C23 fails of it
LoginStep2CallNoExpiry(i, sessionId, b) ==
    /\ Free(i)
    /\ LET call == [Idle EXCEPT !.op = "loginStep2", !.arg = b, !.id = sessionId] IN
       IF sessionId \notin DOMAIN loginChallenges
       THEN calls' = [calls EXCEPT ![i] =
                [call EXCEPT !.pc = "done",
                             !.ret = Failure("Invalid or expired session. Please try logging in again.")]]
       ELSE calls' = [calls EXCEPT ![i] =
                [call EXCEPT !.pc = "select",
                             !.chal = <<loginChallenges[sessionId]>>]]
    /\ UNCHANGED <<now, ticks, loginParameter, loginChallenges, sessions,
                   nSessionIds, minted>>
    /\ UNCHANGED <<verified, zk, fileVars>>

\* up to the select: look the challenge up and check its expiry
LoginStep2Call(i, sessionId, b) ==
    /\ Free(i)
    /\ LET call == [Idle EXCEPT !.op = "loginStep2", !.arg = b, !.id = sessionId] IN
       IF sessionId \notin DOMAIN loginChallenges
       THEN /\ calls' = [calls EXCEPT ![i] =
                   [call EXCEPT !.pc = "done",
                                !.ret = Failure("Invalid or expired session. Please try logging in again.")]]
            /\ UNCHANGED loginChallenges
       ELSE IF now > loginChallenges[sessionId].expiresAt
       THEN /\ loginChallenges' = MapDelete(loginChallenges, sessionId)
            /\ calls' = [calls EXCEPT ![i] =
                   [call EXCEPT !.pc = "done",
                                !.ret = Failure("Challenge expired. Please try logging in again.")]]
       ELSE /\ calls' = [calls EXCEPT ![i] =
                   [call EXCEPT !.pc = "select",
                                !.chal = <<loginChallenges[sessionId]>>]]
            /\ UNCHANGED loginChallenges
    /\ UNCHANGED <<now, ticks, loginParameter, sessions, nSessionIds, minted>>
    /\ UNCHANGED <<verified, zk, fileVars>>

\* after the select: verify, delete the challenge, mint the session, sweep
LoginStep2Verify(i) ==
    /\ NoneDone
    /\ calls[i].op = "loginStep2" /\ calls[i].pc = "selected"
    /\ LET sessionId == calls[i].id
           challengeData == calls[i].chal[1]
       IN
       IF Len(calls[i].rows) = 0
       THEN /\ loginChallenges' = MapDelete(loginChallenges, sessionId)
            /\ Done(i, Failure("No public key registered."))
            /\ UNCHANGED <<sessions, minted>>
       ELSE
         LET X == calls[i].rows[1].publicKey
             V == challengeData.V
             c == challengeData.c
             isValid == serverVerify(V, X, c, calls[i].arg)
             sessionToken == Len(minted) + 1
             stored == MapSet(sessions, sessionToken,
                              [expiresAt |-> now + SESSION_EXPIRY_MS])
             swept == cleanupExpiredChallenges(
                          MapDelete(loginChallenges, sessionId), stored, now)
         IN
         IF isValid = "throw"
         THEN /\ Catch(i, "SyntaxError: Cannot convert to a BigInt")
              /\ UNCHANGED <<loginChallenges, sessions, minted>>
         ELSE IF isValid = "false"
         THEN /\ loginChallenges' = MapDelete(loginChallenges, sessionId)
              /\ Done(i, Failure("Authentication failed. Invalid proof."))
              /\ UNCHANGED <<sessions, minted>>
         ELSE /\ loginChallenges' = swept.loginChallenges
              /\ sessions' = swept.sessions
              /\ minted' = Append(minted, sessionId)
              /\ Done(i, <<[success |-> TRUE, sessionToken |-> sessionToken]>>)
    /\ UNCHANGED <<now, ticks, loginParameter, nSessionIds>>
    /\ UNCHANGED <<zk, fileVars>>

---------------------------------------------------------------------------
(* verifySession, logout *)

\* variant of verifySession that never looks at expiresAt: C7 fails of it
verifySessionNoExpiry(sessionToken, ch, ss, t) ==
    [ret |-> sessionToken \in DOMAIN ss, loginChallenges |-> ch, sessions |-> ss]

\* variant of verifySession that drops the sessions of a token it refuses:
\* C10 fails of it
verifySessionDropsAll(sessionToken, ch, ss, t) ==
    IF sessionToken \in DOMAIN ss /\ ~(t > ss[sessionToken].expiresAt)
    THEN [ret |-> TRUE, loginChallenges |-> ch, sessions |-> ss]
    ELSE [ret |-> FALSE, loginChallenges |-> ch, sessions |-> EmptyMap]

\* variant of verifySession that renews the expiry of the session it accepts:
\* C39 fails of it
verifySessionRenews(sessionToken, ch, ss, t) ==
    IF sessionToken \in DOMAIN ss /\ ~(t > ss[sessionToken].expiresAt)
    THEN [ret |-> TRUE, loginChallenges |-> Sweep(ch, t),
          sessions |-> [Sweep(ss, t) EXCEPT ![sessionToken].expiresAt =
                                                t + SESSION_EXPIRY_MS]]
    ELSE [ret |-> FALSE, loginChallenges |-> Sweep(ch, t),
          sessions |-> Sweep(ss, t)]

\* verifySession(sessionToken) run on maps ch, ss at time t: what it returns
\* and the maps it leaves
verifySession(sessionToken, ch, ss, t) ==
    IF sessionToken = NoToken
    THEN [ret |-> FALSE, loginChallenges |-> ch, sessions |-> ss]
    ELSE LET swept == cleanupExpiredChallenges(ch, ss, t) IN
         IF sessionToken \notin DOMAIN swept.sessions
         THEN [ret |-> FALSE, loginChallenges |-> swept.loginChallenges,
               sessions |-> swept.sessions]
         ELSE IF t > swept.sessions[sessionToken].expiresAt
         THEN [ret |-> FALSE, loginChallenges |-> swept.loginChallenges,
               sessions |-> MapDelete(swept.sessions, sessionToken)]
         ELSE [ret |-> TRUE, loginChallenges |-> swept.loginChallenges,
               sessions |-> swept.sessions]

VerifySession(sessionToken) ==
    /\ NoneDone
    /\ LET r == verifySession(sessionToken, loginChallenges, sessions, now) IN
       /\ loginChallenges' = r.loginChallenges
       /\ sessions' = r.sessions
    /\ UNCHANGED <<now, ticks, loginParameter, calls, nSessionIds, minted>>
    /\ UNCHANGED <<verified, zk, fileVars>>

\* variant of logout with sessions.clear() for sessions.delete(sessionToken):
\* C38 fails of it
LogoutAll(sessionToken) ==
    /\ NoneDone
    /\ sessions' = EmptyMap
    /\ UNCHANGED <<now, ticks, loginParameter, loginChallenges, calls,
                   nSessionIds, minted>>
    /\ UNCHANGED <<verified, zk, fileVars>>

Logout(sessionToken) ==
    /\ NoneDone
    /\ sessions' = MapDelete(sessions, sessionToken)
    /\ UNCHANGED <<now, ticks, loginParameter, loginChallenges, calls,
                   nSessionIds, minted>>
    /\ UNCHANGED <<verified, zk, fileVars>>

---------------------------------------------------------------------------
(* changePassphrase *)

\* up to the select: the token check and verifySession
ChangePassphraseCall(i, sessionToken, newPublicKeyX) ==
    /\ Free(i)
    /\ LET call == [Idle EXCEPT !.op = "changePassphrase",
                                !.arg = newPublicKeyX, !.id = sessionToken,
                                !.pre = Entry]
           r == verifySession(sessionToken, loginChallenges, sessions, now)
       IN
       IF sessionToken = NoToken
       THEN /\ calls' = [calls EXCEPT ![i] =
                   [call EXCEPT !.pc = "done",
                                !.ret = Failure("Authentication required")]]
            /\ UNCHANGED <<loginChallenges, sessions>>
       ELSE /\ loginChallenges' = r.loginChallenges
            /\ sessions' = r.sessions
            /\ calls' = [calls EXCEPT ![i] =
                   IF r.ret
                   THEN [call EXCEPT !.pc = "select"]
                   ELSE [call EXCEPT !.pc = "done",
                                     !.ret = Failure("Invalid or expired session. Please login again.")]]
    /\ UNCHANGED <<now, ticks, loginParameter, nSessionIds, minted>>
    /\ UNCHANGED <<verified, zk, fileVars>>

\* after the select: existing.length === 0 returns, else the update is issued
ChangePassphraseCheck(i) ==
    /\ NoneDone
    /\ calls[i].op = "changePassphrase" /\ calls[i].pc = "selected"
    /\ IF Len(calls[i].rows) = 0
       THEN Done(i, Failure("No public key found. Please register first."))
       ELSE calls' = [calls EXCEPT ![i].pc = "update"]
    /\ UNCHANGED <<now, ticks, loginParameter, loginChallenges, sessions,
                   nSessionIds, minted>>
    /\ UNCHANGED <<verified, zk, fileVars>>

\* after the update: sessions.clear()
ChangePassphraseClear(i) ==
    /\ NoneDone
    /\ calls[i].op = "changePassphrase" /\ calls[i].pc = "updated"
    /\ sessions' = EmptyMap
    /\ Done(i, <<[success |-> TRUE]>>)
    /\ UNCHANGED <<now, ticks, loginParameter, loginChallenges, nSessionIds, minted>>
    /\ UNCHANGED <<verified, zk, fileVars>>

---------------------------------------------------------------------------
(* isRegistered *)

IsRegisteredCall(i) ==
    /\ Free(i)
    /\ calls' = [calls EXCEPT ![i] =
           [Idle EXCEPT !.op = "isRegistered", !.pc = "select"]]
    /\ UNCHANGED <<now, ticks, loginParameter, loginChallenges, sessions,
                   nSessionIds, minted>>
    /\ UNCHANGED <<verified, zk, fileVars>>

IsRegisteredReturn(i) ==
    /\ NoneDone
    /\ calls[i].op = "isRegistered" /\ calls[i].pc = "selected"
    /\ Done(i, <<[success |-> Len(calls[i].rows) > 0]>>)
    /\ UNCHANGED <<now, ticks, loginParameter, loginChallenges, sessions,
                   nSessionIds, minted>>
    /\ UNCHANGED <<verified, zk, fileVars>>

---------------------------------------------------------------------------
(* The environment: the response reaches the client, the clock advances. *)

Return(i) ==
    /\ calls[i].pc = "done"
    /\ calls' = [calls EXCEPT ![i] = Idle]
    /\ UNCHANGED <<now, ticks, loginParameter, loginChallenges, sessions,
                   nSessionIds, minted>>
    /\ UNCHANGED <<verified, zk, fileVars>>

\* Date.now() advances: by a challenge TTL, by a session TTL
TickSteps == {CHALLENGE_EXPIRY_MS, SESSION_EXPIRY_MS}

Tick(d) ==
    /\ NoneDone
    /\ now' = now + d
    /\ ticks' = ticks + 1
    /\ UNCHANGED <<loginParameter, loginChallenges, sessions, calls,
                   nSessionIds, minted>>
    /\ UNCHANGED <<verified, zk, fileVars>>

---------------------------------------------------------------------------
(* The server and its clients. *)

NoRun == [stage |-> "none"]

\* the file pipeline at rest: nothing stored, nothing in progress
NoFiles ==
    /\ codec = [stage |-> "none"]
    /\ blobs = <<>>
    /\ uploads = <<>>
    /\ up = [pc |-> "idle"]
    /\ down = [pc |-> "idle"]
    /\ sent = <<>>
    /\ del = [pc |-> "idle"]
    /\ get = [pc |-> "idle"]

\* the server after start-up, with n call slots
InitServer(n) ==
    /\ now = 0
    /\ ticks = 0
    /\ loginParameter = <<>>
    /\ loginChallenges = EmptyMap
    /\ sessions = EmptyMap
    /\ calls = [i \in 1..n |-> Idle]
    /\ nSessionIds = 0
    /\ minted = <<>>
    /\ verified = {}

\* a loginStep1 request, while fewer than maxIds sessionIds have been or may
\* yet be drawn
LoginStep1Request(maxIds) ==
    \E i \in Slots : \E V \in CommitInputs :
        /\ nSessionIds + InFlight("loginStep1") < maxIds
        /\ LoginStep1Call(i, V)

\* a loginStep2 request, while fewer than maxTokens session tokens have been
\* or may yet be drawn
LoginStep2Request(maxTokens) ==
    \E i \in Slots : \E s \in SessionIdInputs : \E b \in ResponseInputs :
        /\ Len(minted) + InFlight("loginStep2") < maxTokens
        /\ LoginStep2Call(i, s, b)

\* the proof on which the verify step of call i minted a session, for the
\* history
Accepted(i) ==
    IF calls'[i].ret[1].success
    THEN {[V |-> calls[i].chal[1].V, X |-> calls[i].rows[1].publicKey,
           c |-> calls[i].chal[1].c, b |-> calls[i].arg]}
    ELSE {}

Clock == \E d \in TickSteps : ticks < MaxTicks /\ Tick(d)

\* Spec: MaxCalls concurrent calls, the clock standing still
Init == InitServer(MaxCalls) /\ zk = NoRun /\ NoFiles

Next ==
    \/ \E i \in Slots : \E X \in KeyInputs : RegisterCall(i, X)
    \/ LoginStep1Request(MaxSessionIds)
    \/ LoginStep2Request(MaxTokens)
    \/ \E t \in TokenInputs : VerifySession(t)
    \/ \E t \in TokenInputs \ {NoToken} : Logout(t)
    \/ \E i \in Slots : \E t \in TokenInputs : \E X \in KeyInputs :
           ChangePassphraseCall(i, t, X)
    \/ \E i \in Slots : IsRegisteredCall(i)
    \/ \E i \in Slots : RegisterCheck(i)
    \/ \E i \in Slots : RegisterReturn(i)
    \/ \E i \in Slots : LoginStep1Store(i)
    \/ \E i \in Slots : LoginStep2Verify(i) /\ UNCHANGED verified
    \/ \E i \in Slots : ChangePassphraseCheck(i)
    \/ \E i \in Slots : ChangePassphraseClear(i)
    \/ \E i \in Slots : IsRegisteredReturn(i)
    \/ \E i \in Slots : DbSelect(i)
    \/ \E i \in Slots : DbInsert(i)
    \/ \E i \in Slots : DbUpdate(i)
    \/ \E i \in Slots : DbReject(i)
    \/ \E i \in Slots : Return(i)

Spec == Init /\ [][Next]_vars

\* no server action is in flight
Quiet == \A j \in Slots : calls[j].op = "idle"

\* SpecClock: the requests served one at a time, the clock advancing between
\* the steps, the accepted proofs recorded
InitClock == InitServer(1) /\ zk = NoRun /\ NoFiles

NextClock ==
    \/ \E i \in Slots : \E X \in KeyInputs : RegisterCall(i, X)
    \/ LoginStep1Request(MaxClockSessionIds)
    \/ LoginStep2Request(MaxTokens)
    \/ \E t \in TokenInputs : Quiet /\ VerifySession(t)
    \/ \E t \in TokenInputs \ {NoToken} : Quiet /\ Logout(t)
    \/ \E i \in Slots : \E t \in TokenInputs : \E X \in KeyInputs :
           ChangePassphraseCall(i, t, X)
    \/ \E i \in Slots : IsRegisteredCall(i)
    \/ \E i \in Slots : RegisterCheck(i)
    \/ \E i \in Slots : RegisterReturn(i)
    \/ \E i \in Slots : LoginStep1Store(i)
    \/ \E i \in Slots :
           LoginStep2Verify(i) /\ verified' = verified \cup Accepted(i)
    \/ \E i \in Slots : ChangePassphraseCheck(i)
    \/ \E i \in Slots : ChangePassphraseClear(i)
    \/ \E i \in Slots : IsRegisteredReturn(i)
    \/ \E i \in Slots : DbSelect(i)
    \/ \E i \in Slots : DbInsert(i)
    \/ \E i \in Slots : DbUpdate(i)
    \/ \E i \in Slots : DbReject(i)
    \/ \E i \in Slots : Return(i)
    \/ Clock

SpecClock == InitClock /\ [][NextClock]_vars

\* SpecZkp: the functions of zkp.ts in one registration and one login, as
\* AuthWrapper and the server actions pass values between them
IsGroup(qq) ==
    /\ \A d \in 2..(qq - 1) : qq % d # 0
    /\ \A d \in 2..(2 * qq) : (2 * qq + 1) % d # 0
    /\ modPow(2, qq, 2 * qq + 1) = 1

Groups == {Group(qq) : qq \in {r \in 3..MaxGroupQ : IsGroup(r)}}

InitZkp ==
    /\ InitServer(1)
    /\ NoFiles
    /\ zk \in [stage : {"start"}, P : Groups, hash : 0..MaxHash,
               login : 0..MaxHash, X : {<<>>}, x : {0}, v : {0}, V : {<<>>},
               c : {0}, b : {<<>>}, isValid : {"none"}]

\* handleRegister: generatePublicKey(passphrase), sent as X.toString()
ZkRegister ==
    /\ zk.stage = "start"
    /\ zk' = [zk EXCEPT !.stage = "registered",
                        !.X = toString(generatePublicKeyIn(zk.P, zk.hash))]
    /\ UNCHANGED <<serverVars, verified, fileVars>>

\* handleLogin: clientLoginStep1(passphrase) and KDF(passphrase, q); V is sent
\* as V.toString()
ZkCommit ==
    /\ zk.stage = "registered"
    /\ \E v \in getSecureRandomBigInt(1, zk.P.q - 1) :
         LET step1 == clientLoginStep1In(zk.P, zk.login, v) IN
         zk' = [zk EXCEPT !.stage = "committed", !.x = step1.x, !.v = step1.v,
                          !.V = toString(step1.V)]
    /\ UNCHANGED <<serverVars, verified, fileVars>>

\* loginStep1: the server draws c
ZkChallenge ==
    /\ zk.stage = "committed"
    /\ \E c \in getSecureRandomBigInt(1, zk.P.q - 1) :
         zk' = [zk EXCEPT !.stage = "challenged", !.c = c]
    /\ UNCHANGED <<serverVars, verified, fileVars>>

\* handleLogin: clientLoginStep2(v, challenge, x), sent as b.toString()
ZkRespond ==
    /\ zk.stage = "challenged"
    /\ zk' = [zk EXCEPT !.stage = "responded",
                        !.b = toString(clientLoginStep2In(zk.P, zk.v, toString(zk.c), zk.x))]
    /\ UNCHANGED <<serverVars, verified, fileVars>>

\* loginStep2: serverVerify(challenge.V, identity.publicKey, challenge.c, b)
ZkVerify ==
    /\ zk.stage = "responded"
    /\ zk' = [zk EXCEPT !.stage = "verified",
                        !.isValid = serverVerifyIn(zk.P, BigInt(zk.V).v, zk.X, zk.c, zk.b)]
    /\ UNCHANGED <<serverVars, verified, fileVars>>

NextZkp == ZkRegister \/ ZkCommit \/ ZkChallenge \/ ZkRespond \/ ZkVerify

SpecZkp == InitZkp /\ [][NextZkp]_vars

---------------------------------------------------------------------------
(* The arithmetic of zkp.ts, one function at a time. *)

\* the largest base, exponent and modulus modPow is run on
MaxBase == 5
MaxExponent == 5
MaxModulus == 5
\* the largest SHA-256 value a passphrase is given, and the largest q
MaxDigest == 7
MaxKdfQ == 5
\* the largest min and max getSecureRandomBigInt is called with
MaxRandomMin == 2
MaxRandomMax == 3
\* the largest value of the bytes before the last one of a draw
MaxLeadingByte == 2
\* draws of one call of getSecureRandomBigInt
MaxDraws == 2

\* the passphrases of the KDF runs
Passphrases == {<<"a">>, <<"b">>}

\* the calls of getSecureRandomBigInt: small ranges, empty ranges, and a range
\* of more than 256 values
RandomCalls ==
    {<<min, max>> : min \in 0..MaxRandomMin, max \in 0..MaxRandomMax}
        \cup {<<1, 256 + MaxRandomMax>>}

\* what crypto.getRandomValues may put into n bytes
RandomBytes(n) ==
    {leading \o <<last>> :
        leading \in [1..(n - 1) -> 0..MaxLeadingByte], last \in 0..255}

\* SpecPure: one run of modPow in its three copies, or two runs of KDF on
\* one passphrase, crypto.subtle.digest being a function of the passphrase,
\* or one call of getSecureRandomBigInt
InitPure ==
    /\ InitServer(1)
    /\ NoFiles
    /\ \/ zk \in [stage : {"modPow"}, base : 0..MaxBase,
                  exponent : 0..MaxExponent, modulus : 1..MaxModulus,
                  out : {<<>>}]
       \/ zk \in [stage : {"KDF"}, digest : [Passphrases -> 0..MaxDigest],
                  passphrase : Passphrases, q : 2..MaxKdfQ, out : {<<>>}]
       \/ \E call \in RandomCalls :
              zk = [stage |-> "random", min |-> call[1], max |-> call[2],
                    range |-> 0, byteLength |-> 0, draws |-> 0,
                    randomBigInt |-> 0, out |-> <<>>]

\* modPow(base, exponent, modulus) in generatePublicKey, clientLoginStep1 and
\* serverVerify
ModPowRun ==
    /\ zk.stage = "modPow"
    /\ zk' = [zk EXCEPT
           !.stage = "modPowDone",
           !.out = <<modPowOfGeneratePublicKey(zk.base, zk.exponent, zk.modulus),
                     modPowOfClientLoginStep1(zk.base, zk.exponent, zk.modulus),
                     modPow(zk.base, zk.exponent, zk.modulus)>>]
    /\ UNCHANGED <<serverVars, verified, fileVars>>

\* KDF(passphrase, q), twice
KdfRun ==
    /\ zk.stage = "KDF"
    /\ Len(zk.out) < 2
    /\ zk' = [zk EXCEPT !.out = Append(@, KDF(zk.digest[zk.passphrase], zk.q))]
    /\ UNCHANGED <<serverVars, verified, fileVars>>

\* getSecureRandomBigInt(min, max) up to its loop: the range, the throw, the
\* number of bytes
RandomCall ==
    /\ zk.stage = "random"
    /\ LET range == zk.max - zk.min + 1 IN
       IF range <= 0
       THEN zk' = [zk EXCEPT !.stage = "threw", !.range = range]
       ELSE zk' = [zk EXCEPT !.stage = "drawing", !.range = range,
                             !.byteLength = byteLength(range)]
    /\ UNCHANGED <<serverVars, verified, fileVars>>

\* one turn of the loop: the bytes drawn, their value, and the return when
\* the loop ends
RandomDraw ==
    /\ zk.stage = "drawing"
    /\ zk.draws < MaxDraws
    /\ \E randomBytes \in RandomBytes(zk.byteLength) :
         LET randomBigInt == bytesToBigInt(randomBytes) IN
         zk' = [zk EXCEPT
                !.draws = @ + 1,
                !.randomBigInt = randomBigInt,
                !.stage = IF repeatDraw(randomBigInt, zk.range)
                          THEN "drawing" ELSE "returned",
                !.out = IF repeatDraw(randomBigInt, zk.range)
                        THEN <<>> ELSE <<randomBigInt + zk.min>>]
    /\ UNCHANGED <<serverVars, verified, fileVars>>

NextPure == ModPowRun \/ KdfRun \/ RandomCall \/ RandomDraw

SpecPure == InitPure /\ [][NextPure]_vars

---------------------------------------------------------------------------
(* The chunk splitters and combineFiles. *)

\* a file of the codec run holds at most MaxFileSize bytes
MaxFileSize == 6
\* the largest split count asked of a splitter
MaxSplit == 6
\* a byte is one of 0..MaxByte
MaxByte == 1

Bytes == 0..MaxByte

\* Math.ceil(a / b), a >= 0 and b > 0
Ceil(a, b) == (a + b - 1) \div b

\* Math.min(a, b)
Min(a, b) == IF a < b THEN a ELSE b

\* file.slice(start, end), buf.subarray(start, end)
slice(bytes, start, end) == SubSeq(bytes, start + 1, end)

\* new File([bytes], name, { type })
File(name, type, bytes) == [name |-> name, type |-> type, bytes |-> bytes]

\* the loop of splitFile from chunk i on: chunks of chunkSize bytes, named
\* <name>.part<i + 1>, until splitSize chunks are cut or the file is used up
RECURSIVE splitLoop(_, _, _, _)
splitLoop(file, chunkSize, splitSize, i) ==
    LET start == i * chunkSize
        end == Min((i + 1) * chunkSize, Len(file.bytes))
    IN  IF i >= splitSize \/ start >= end
        THEN <<>>
        ELSE <<File(file.name \o <<".", "p", "a", "r", "t">> \o toString(i + 1),
                    file.type, slice(file.bytes, start, end))>>
                 \o splitLoop(file, chunkSize, splitSize, i + 1)

\* splitFile of lib/utils/file.ts: the chunk size is a fifth of the file,
\* whatever splitSize is
splitFile(file, splitSize) ==
    IF Len(file.bytes) = 0
    THEN [ok |-> FALSE, chunks |-> <<>>]
    ELSE [ok |-> TRUE,
          chunks |-> splitLoop(file, Ceil(Len(file.bytes), 5), splitSize, 0)]

\* splitFile of lib/db/schema.ts: the chunk size is the file over splitSize
splitFileSchema(file, splitSize) ==
    IF Len(file.bytes) = 0 \/ splitSize <= 0
    THEN [ok |-> FALSE, chunks |-> <<>>]
    ELSE [ok |-> TRUE,
          chunks |-> splitLoop(file, Ceil(Len(file.bytes), splitSize),
                               splitSize, 0)]

\* the slicing loop of handleUpload from part i on
RECURSIVE partsLoop(_, _, _, _)
partsLoop(buf, size, n, i) ==
    LET start == i * size
        end == Min(start + size, Len(buf))
    IN  IF i >= n \/ start >= end
        THEN <<>>
        ELSE <<slice(buf, start, end)>> \o partsLoop(buf, size, n, i + 1)

\* variant of the slicing of handleUpload that keeps the first part only:
\* C15 fails of it
handleUploadSplitFirst(buf) == partsLoop(buf, Ceil(Len(buf), 5), 1, 0)

\* handleUpload: the file cut into n = 5 parts
handleUploadSplit(buf) == partsLoop(buf, Ceil(Len(buf), 5), 5, 0)

\* concatBytes of lib/utils/crypto.ts
RECURSIVE concatBytes(_)
concatBytes(parts) ==
    IF parts = <<>> THEN <<>> ELSE Head(parts) \o concatBytes(Tail(parts))

\* combineFiles of lib/utils/file.ts: the chunks' buffers in the order given
combineFiles(chunks, originalName) ==
    IF chunks = <<>> \/ originalName = <<>>
           \/ \E k \in 1..Len(chunks) : chunks[k].type # chunks[1].type
    THEN [ok |-> FALSE, file |-> File(<<>>, <<>>, <<>>)]
    ELSE [ok |-> TRUE,
          file |-> File(originalName, chunks[1].type,
                        concatBytes([k \in 1..Len(chunks) |-> chunks[k].bytes]))]

\* the byte sequences of at most n bytes
RECURSIVE ByteSeqs(_)
ByteSeqs(n) ==
    IF n = 0 THEN {<<>>}
    ELSE ByteSeqs(n - 1)
             \cup {Append(s, b) : s \in {t \in ByteSeqs(n - 1) : Len(t) = n - 1},
                                  b \in Bytes}

\* SpecCodec: one file cut by one of the three splitters and put together
\* again
InitCodec ==
    /\ InitServer(1) /\ zk = NoRun
    /\ blobs = <<>> /\ uploads = <<>> /\ sent = <<>>
    /\ up = [pc |-> "idle"] /\ down = [pc |-> "idle"] /\ del = [pc |-> "idle"]
    /\ get = [pc |-> "idle"]
    /\ \E splitter \in {"file", "schema", "page"} :
       \E bytes \in ByteSeqs(MaxFileSize) :
       \E n \in IF splitter = "page" THEN {5} ELSE 1..MaxSplit :
           codec = [stage |-> "start", splitter |-> splitter,
                    file |-> File(<<"f">>, <<"t">>, bytes), n |-> n,
                    chunks |-> <<>>, out |-> <<>>]

\* the splitter runs: it throws or returns the chunks
CodecSplit ==
    /\ codec.stage = "start"
    /\ LET r == IF codec.splitter = "file" THEN splitFile(codec.file, codec.n)
                ELSE IF codec.splitter = "schema"
                THEN splitFileSchema(codec.file, codec.n)
                ELSE [ok |-> TRUE,
                      chunks |-> [k \in 1..Len(handleUploadSplit(codec.file.bytes)) |->
                                     File(<<>>, codec.file.type,
                                          handleUploadSplit(codec.file.bytes)[k])]]
       IN  codec' = [codec EXCEPT !.stage = IF r.ok THEN "split" ELSE "threw",
                                  !.chunks = r.chunks]
    /\ UNCHANGED <<serverVars, verified, zk, get, del, blobs, uploads, up, down, sent>>

\* the chunks are put together in the order returned: combineFiles, or
\* concatBytes for the parts of handleUpload
CodecCombine ==
    /\ codec.stage = "split"
    /\ codec.splitter \in {"file", "page"}
    /\ LET r == IF codec.splitter = "file"
                THEN combineFiles(codec.chunks, codec.file.name)
                ELSE [ok |-> TRUE,
                      file |-> File(codec.file.name, codec.file.type,
                                    concatBytes([k \in 1..Len(codec.chunks) |->
                                                    codec.chunks[k].bytes]))]
       IN  codec' = [codec EXCEPT !.stage = IF r.ok THEN "combined" ELSE "threw",
                                  !.out = r.file]
    /\ UNCHANGED <<serverVars, verified, zk, get, del, blobs, uploads, up, down, sent>>

NextCodec == CodecSplit \/ CodecCombine

SpecCodec == InitCodec /\ [][NextCodec]_vars

---------------------------------------------------------------------------
(* Encryption and hashing of the chunks.  SHA-256, base64 and AES-GCM are  *)
(* terms over their arguments: two digests are equal when their inputs     *)
(* are, and a ciphertext opens only under the key and the iv it was made   *)
(* with.  A string is a sequence, so that join is concatenation.           *)

\* the AES-GCM keys the uploaders draw
MaxKeys == 2

\* generateAesGcmKey: a fresh key
generateAesGcmKey == 1..MaxKeys

\* randomIv(bytes): bytes random bytes; the model draws one and repeats it
randomIv(bytes) == {[k \in 1..bytes |-> b] : b \in Bytes}

\* aesGcmEncrypt: the ciphertext with its tag, one block
aesGcmEncrypt(key, iv, plaintext) ==
    <<[key |-> key, iv |-> iv, plaintext |-> plaintext, intact |-> TRUE]>>

\* aesGcmDecrypt: the plaintext, or OperationError when the key, the iv or
\* the ciphertext is not what was encrypted
aesGcmDecrypt(key, iv, ciphertext) ==
    IF /\ Len(ciphertext) = 1
       /\ ciphertext[1].intact
       /\ ciphertext[1].key = key
       /\ ciphertext[1].iv = iv
    THEN [ok |-> TRUE, pt |-> ciphertext[1].plaintext]
    ELSE [ok |-> FALSE, pt |-> <<>>]

\* sha256(data): the digest
sha256(data) == [sha256 |-> data]

\* toBase64(bytes), digest("base64"): a string
toBase64(bytes) == <<[base64 |-> bytes]>>

\* chunkHashes.join("")
RECURSIVE join(_)
join(strings) ==
    IF strings = <<>> THEN <<>> ELSE Head(strings) \o join(Tail(strings))

\* new TextEncoder().encode(s), Buffer.from(s): the UTF-8 bytes of a string
encode(s) == [utf8 |-> s]

\* file_hash = H(h0 || h1 || ...), as handleUpload and UploadEncrypted
\* compute it
combinedHash(chunkHashes) == toBase64(sha256(encode(join(chunkHashes))))

\* the form handleUpload fills in for the parts chunks of file: part i
\* encrypted under key with ivs[i + 1], its hash, the file hash, the parts as
\* chunk<i>
encryptedForm(file, chunks, key, ivs) ==
    LET bi == [k \in 1..Len(chunks) |->
                  concatBytes(<<ivs[k], aesGcmEncrypt(key, ivs[k], chunks[k])>>)]
        chunkHashes == [k \in 1..Len(chunks) |-> toBase64(sha256(bi[k]))]
    IN  [meta |-> [filename |-> file.name, size |-> Len(file.bytes),
                   mime |-> file.type],
         file_hash |-> combinedHash(chunkHashes),
         chunk_hashes |-> chunkHashes,
         chunks |-> [k \in 1..Len(chunks) |->
                        [index |-> k - 1,
                         file |-> File(file.name \o <<".", "p", "a", "r", "t">>
                                           \o toString(k - 1),
                                       <<>>, bi[k])]]]

\* variant of handleUploadForm that appends base64Key to the file name in
\* meta: C22 fails of it
handleUploadFormWithKey(file, key, ivs) ==
    LET form == encryptedForm(file, handleUploadSplit(file.bytes), key, ivs)
    IN  [form EXCEPT !.meta.filename = @ \o toBase64(key)]

\* handleUpload up to the call of UploadEncrypted: the file cut into at most
\* 5 parts, encrypted and hashed
handleUploadForm(file, key, ivs) ==
    encryptedForm(file, handleUploadSplit(file.bytes), key, ivs)

---------------------------------------------------------------------------
(* The storage backends and UploadEncrypted. *)

\* the indices of utpApis, one UTApi per UPLOADTHING_TOKEN_<n>
utpApis == 0..4

\* the result of a put that has not been answered, and of one that threw
Pending == [state |-> "pending", key |-> 0]
NoBackend == [state |-> "threw", key |-> 0]

\* chunkEntries.sort((a, b) => a.index - b.index): e put in its place in a
\* sorted list, after the entries of the same index
RECURSIVE insertByIndex(_, _)
insertByIndex(sorted, e) ==
    IF sorted = <<>> THEN <<e>>
    ELSE IF e.index < Head(sorted).index THEN <<e>> \o sorted
    ELSE <<Head(sorted)>> \o insertByIndex(Tail(sorted), e)

\* variant of sortByIndex that leaves the entries in the order of the form:
\* C32 fails of it
sortByIndexNever(entries) == entries

RECURSIVE sortByIndex(_)
sortByIndex(entries) ==
    IF entries = <<>> THEN <<>>
    ELSE insertByIndex(sortByIndex(SubSeq(entries, 1, Len(entries) - 1)),
                       entries[Len(entries)])

\* variant of the file_hash check that accepts every file_hash: C14 fails of it
fileHashAny(chunkHashes, fileHash) == TRUE

\* the file_hash check of UploadEncrypted: combinedHash === fileHash
fileHashOk(chunkHashes, fileHash) == combinedHash(chunkHashes) = fileHash

\* variant of the chunk hash check that accepts every chunk: C30 fails of it
chunkHashesAny(chunkEntries, chunkHashes) == TRUE

\* createHash("sha256").update(buf).digest("base64") of every chunk equals
\* the hash claimed for it
chunkHashesOk(chunkEntries, chunkHashes) ==
    \A k \in 1..Len(chunkEntries) :
        toBase64(sha256(chunkEntries[k].file.bytes)) = chunkHashes[k]

\* UploadEncrypted(formData, sessionToken) up to the puts: requireAuth, the
\* fields, the chunk entries sorted, the count and the chunk hashes checked,
\* then utUploadMultiFile: chunk i is put to utpApis[i], which throws when
\* there is no such backend
UploadEncryptedCall(sub, sessionToken) ==
    /\ up.pc = "idle" /\ down.pc = "idle"
    /\ LET auth == verifySession(sessionToken, loginChallenges, sessions, now)
           formData == sub.form
           chunkHashes == formData.chunk_hashes
           chunkEntries == sortByIndex(formData.chunks)
           call == [pc |-> "putting", sub |-> sub, token |-> sessionToken,
                    files |-> [k \in 1..Len(chunkEntries) |-> chunkEntries[k].file],
                    results |-> <<>>, error |-> "", id |-> 0]
           Throw(msg) == up' = [call EXCEPT !.pc = "failed", !.error = msg]
       IN
       /\ loginChallenges' = auth.loginChallenges
       /\ sessions' = auth.sessions
       /\ IF sessionToken = NoToken
          THEN Throw("Authentication required")
          ELSE IF ~auth.ret
          THEN Throw("Invalid or expired session")
          ELSE IF formData.file_hash = <<>>
          THEN Throw("Missing required fields: meta, file_hash, chunk_hashes")
          ELSE IF Len(chunkEntries) # Len(chunkHashes)
          THEN Throw("Chunk count does not match hash count")
          ELSE IF ~chunkHashesOk(chunkEntries, chunkHashes)
          THEN Throw("Chunk hash mismatch")
          ELSE up' = [call EXCEPT
                   !.results = [k \in 1..Len(chunkEntries) |->
                                   IF k - 1 \in utpApis THEN Pending ELSE NoBackend],
                   !.pc = IF \A k \in 1..Len(chunkEntries) : k - 1 \in utpApis
                          THEN "putting" ELSE "failed",
                   !.error = IF \A k \in 1..Len(chunkEntries) : k - 1 \in utpApis
                             THEN ""
                             ELSE "TypeError: Cannot read properties of undefined"]
    /\ UNCHANGED <<now, ticks, loginParameter, calls, nSessionIds, minted>>
    /\ UNCHANGED <<verified, zk, get, del, codec, blobs, uploads, down, sent>>

\* utUploadFiles([file], i): backend i answers the put of chunk i = k - 1,
\* with the key of the stored file or with no data
UtUploadFiles(k, stored) ==
    /\ up.pc \in {"putting", "failed"}
    /\ k \in 1..Len(up.results)
    /\ up.results[k] = Pending
    /\ IF stored
       THEN /\ blobs' = Append(blobs, [server |-> k - 1,
                                       name |-> up.files[k].name,
                                       bytes |-> up.files[k].bytes,
                                       original |-> up.files[k].bytes,
                                       touched |-> FALSE, deleted |-> FALSE])
            /\ up' = [up EXCEPT !.results[k] =
                          [state |-> "stored", key |-> Len(blobs) + 1]]
       ELSE /\ up' = [up EXCEPT !.results[k] = [state |-> "nokey", key |-> 0]]
            /\ UNCHANGED blobs
    /\ UNCHANGED <<serverVars, verified, zk, get, del, codec, uploads, down, sent>>

\* UploadEncrypted once every put is answered: the descriptors, the
\* file_hash check, the insert into uploads
UploadEncryptedFinish ==
    /\ up.pc = "putting"
    /\ \A k \in 1..Len(up.results) : up.results[k] # Pending
    /\ LET formData == up.sub.form
           chunkHashes == formData.chunk_hashes
           fileChunksDetails ==
               [k \in 1..Len(up.results) |->
                   [key |-> up.results[k].key, name |-> up.files[k].name,
                    url |-> up.results[k].key, hash |-> chunkHashes[k]]]
           row == [id |-> Len(uploads) + 1,
                   originalFileName |-> formData.meta.filename,
                   mimeType |-> formData.meta.mime,
                   originalSize |-> formData.meta.size,
                   uploadParts |-> fileChunksDetails,
                   fileHash |-> formData.file_hash]
       IN
       IF \E k \in 1..Len(up.results) : up.results[k].state = "nokey"
       THEN /\ up' = [up EXCEPT !.pc = "failed",
                                !.error = "Failed to upload chunk: Missing key"]
            /\ UNCHANGED <<uploads, sent>>
       ELSE IF ~fileHashOk(chunkHashes, formData.file_hash)
       THEN /\ up' = [up EXCEPT !.pc = "failed", !.error = "file_hash mismatch"]
            /\ UNCHANGED <<uploads, sent>>
       ELSE /\ uploads' = Append(uploads, row)
            /\ sent' = Append(sent, [sub |-> up.sub, row |-> row,
                                     touched |-> FALSE])
            /\ up' = [up EXCEPT !.pc = "done", !.id = row.id]
    /\ UNCHANGED <<serverVars, verified, zk, get, del, codec, blobs, down>>

\* the caller takes the id or the error, once the puts still under way have
\* been answered
UploadReturn ==
    /\ up.pc \in {"done", "failed"}
    /\ \A k \in 1..Len(up.results) : up.results[k] # Pending
    /\ up' = [pc |-> "idle"]
    /\ UNCHANGED <<serverVars, verified, zk, get, del, codec, blobs, uploads, down, sent>>

---------------------------------------------------------------------------
(* handleDownload. *)

\* fromBase64(b64): the bytes of a base64 string
fromBase64(b64) == b64[1].base64

\* a task of the Promise.all of handleDownload before its fetch
NoBuf == [pc |-> "fetch", buf |-> <<>>]

\* variant of the hash check of a downloaded chunk that accepts every
\* chunk: C16 fails of it
hashMatchesAny(buf, hash) == TRUE

\* the hash check of a downloaded chunk: toBase64(sha256(buf)) === p.hash
hashMatches(buf, hash) == toBase64(sha256(buf)) = hash

\* handleDownload(id, key) up to the fetches: GetFile(id) returns the row, or
\* throws when there is none; no key is an error
HandleDownloadCall(id, keyB64) ==
    /\ up.pc = "idle" /\ down.pc = "idle"
    /\ IF id \notin 1..Len(uploads) \/ keyB64 = <<>>
       THEN down' = [pc |-> "failed", id |-> id, keyB64 |-> keyB64,
                     meta |-> <<>>, tasks |-> <<>>, plaintextChunks |-> <<>>,
                     file |-> <<>>]
       ELSE LET meta == uploads[id] IN
            down' = [pc |-> "chunks", id |-> id, keyB64 |-> keyB64,
                     meta |-> <<meta>>,
                     tasks |-> [k \in 1..Len(meta.uploadParts) |-> NoBuf],
                     plaintextChunks |-> [k \in 1..Len(meta.uploadParts) |-> <<>>],
                     file |-> <<>>]
    /\ UNCHANGED <<serverVars, verified, zk, get, del, codec, blobs, uploads, up, sent>>

\* task k throws: the first rejection fails the download
Rejects(k) ==
    down' = [down EXCEPT !.tasks[k].pc = "threw",
                         !.pc = IF down.pc = "chunks" THEN "failed" ELSE @]

\* fetch(p.url): the bytes the backend holds now, or no success
FetchChunk(k, ok) ==
    /\ down.pc \in {"chunks", "failed"}
    /\ k \in 1..Len(down.tasks)
    /\ down.tasks[k].pc = "fetch"
    /\ LET p == down.meta[1].uploadParts[k] IN
       IF ok /\ p.url \in 1..Len(blobs) /\ ~blobs[p.url].deleted
       THEN down' = [down EXCEPT !.tasks[k] =
                         [pc |-> "fetched", buf |-> blobs[p.url].bytes]]
       ELSE Rejects(k)
    /\ UNCHANGED <<serverVars, verified, zk, get, del, codec, blobs, uploads, up, sent>>

\* the hash of the fetched bytes against the descriptor's
CheckChunk(k) ==
    /\ down.pc \in {"chunks", "failed"}
    /\ k \in 1..Len(down.tasks)
    /\ down.tasks[k].pc = "fetched"
    /\ IF hashMatches(down.tasks[k].buf, down.meta[1].uploadParts[k].hash)
       THEN down' = [down EXCEPT !.tasks[k].pc = "checked"]
       ELSE Rejects(k)
    /\ UNCHANGED <<serverVars, verified, zk, get, del, codec, blobs, uploads, up, sent>>

\* variant of DecryptChunk with plaintextChunks.push(pt) for
\* plaintextChunks[i] = pt: C31 fails of it
DecryptChunkPush(k) ==
    /\ down.pc \in {"chunks", "failed"}
    /\ k \in 1..Len(down.tasks)
    /\ down.tasks[k].pc = "checked"
    /\ LET buf == down.tasks[k].buf
           iv == slice(buf, 0, Min(12, Len(buf)))
           ct == slice(buf, Min(12, Len(buf)), Len(buf))
           pt == aesGcmDecrypt(fromBase64(down.keyB64), iv, ct)
           pushed == Cardinality({j \in 1..Len(down.tasks) :
                                     down.tasks[j].pc = "decrypted"})
       IN  IF pt.ok
           THEN down' = [down EXCEPT !.tasks[k].pc = "decrypted",
                                     !.plaintextChunks[pushed + 1] = pt.pt]
           ELSE Rejects(k)
    /\ UNCHANGED <<serverVars, verified, zk, get, del, codec, blobs, uploads, up, sent>>

\* iv = buf.subarray(0, 12), ct = buf.subarray(12), aesGcmDecrypt
DecryptChunk(k) ==
    /\ down.pc \in {"chunks", "failed"}
    /\ k \in 1..Len(down.tasks)
    /\ down.tasks[k].pc = "checked"
    /\ LET buf == down.tasks[k].buf
           iv == slice(buf, 0, Min(12, Len(buf)))
           ct == slice(buf, Min(12, Len(buf)), Len(buf))
           pt == aesGcmDecrypt(fromBase64(down.keyB64), iv, ct)
       IN  IF pt.ok
           THEN down' = [down EXCEPT !.tasks[k].pc = "decrypted",
                                     !.plaintextChunks[k] = pt.pt]
           ELSE Rejects(k)
    /\ UNCHANGED <<serverVars, verified, zk, get, del, codec, blobs, uploads, up, sent>>

\* every task has resolved: concatBytes(plaintextChunks), the File handed to
\* the browser
DownloadMerge ==
    /\ down.pc = "chunks"
    /\ \A k \in 1..Len(down.tasks) : down.tasks[k].pc = "decrypted"
    /\ down' = [down EXCEPT !.pc = "complete",
                            !.file = <<File(down.meta[1].originalFileName,
                                            down.meta[1].mimeType,
                                            concatBytes(down.plaintextChunks))>>]
    /\ UNCHANGED <<serverVars, verified, zk, get, del, codec, blobs, uploads, up, sent>>

\* the download is over and its tasks have run out
DownloadReturn ==
    /\ down.pc \in {"complete", "failed"}
    /\ \A k \in 1..Len(down.tasks) : down.tasks[k].pc \in {"decrypted", "threw"}
    /\ down' = [pc |-> "idle"]
    /\ UNCHANGED <<serverVars, verified, zk, get, del, codec, blobs, uploads, up, sent>>

---------------------------------------------------------------------------
(* The uploaders, the downloaders and what may happen to stored data. *)

\* bytes of the files the page uploads
MaxUploadSize == 3
\* chunks in the form of a client that cuts finer than the page
MaxChunks == 6
\* an upload is accepted while fewer than MaxBlobs files are stored
MaxBlobs == 1
\* blobs and rows that are altered behind the program's back
MaxTampers == 1

\* the files selected for upload: 1 to MaxUploadSize bytes
SelectedFiles ==
    {File(<<"f">>, <<"t">>, [k \in 1..n |-> k % (MaxByte + 1)]) :
        n \in 1..MaxUploadSize}

\* the ivs randomIv draws for the chunks of one upload: all equal, or
\* alternating
IvDraws ==
    {[k \in 1..MaxChunks |-> [j \in 1..12 |-> (k * d) % (MaxByte + 1)]] :
        d \in 0..1}

\* what the page submits: the form of handleUpload, and to whom the key and
\* the file belong
PageSubmissions ==
    {[file |-> f, key |-> key, form |-> handleUploadForm(f, key, ivs)] :
        f \in SelectedFiles, key \in generateAesGcmKey, ivs \in IvDraws}

\* a form with the last chunk hash left out
dropLastHash(form) ==
    [form EXCEPT !.chunk_hashes = SubSeq(@, 1, Len(@) - 1)]

\* a form whose first chunk is not the one hashed
wrongChunk(form) ==
    [form EXCEPT !.chunks[1].file.bytes[1] = (@ + 1) % (MaxByte + 1)]

\* a form whose file_hash is the hash of other chunk hashes
wrongFileHash(form) ==
    [form EXCEPT !.file_hash = combinedHash(form.chunk_hashes \o form.chunk_hashes)]

\* a client that cuts a file of MaxChunks bytes into one-byte chunks
FineSubmission ==
    LET f == File(<<"f">>, <<"t">>, [k \in 1..MaxChunks |-> 0])
        ivs == [k \in 1..MaxChunks |-> [j \in 1..12 |-> 0]]
    IN  [file |-> f, key |-> 1,
         form |-> encryptedForm(f, partsLoop(f.bytes, 1, MaxChunks, 0), 1, ivs)]

\* a form whose chunk<i> entries were appended from the last to the first
reversedChunks(form) ==
    [form EXCEPT !.chunks = [k \in 1..Len(@) |-> @[Len(@) + 1 - k]]]

\* what clients other than the page may submit
ClientSubmissions ==
    PageSubmissions \cup {FineSubmission}
        \cup {[s EXCEPT !.form = reversedChunks(s.form)] : s \in PageSubmissions}
        \cup {[s EXCEPT !.form = dropLastHash(s.form)] : s \in PageSubmissions}
        \cup {[s EXCEPT !.form = wrongChunk(s.form)] : s \in PageSubmissions}
        \cup {[s EXCEPT !.form = wrongFileHash(s.form)] : s \in PageSubmissions}

\* handleUpload: the form is sent with UploadEncrypted(form), no session token
HandleUpload ==
    /\ up.pc = "idle" /\ down.pc = "idle"
    /\ Len(blobs) < MaxBlobs
    /\ \E f \in SelectedFiles : \E key \in generateAesGcmKey : \E ivs \in IvDraws :
           UploadEncryptedCall([file |-> f, key |-> key,
                                form |-> handleUploadForm(f, key, ivs)], NoToken)

\* another client calls the server action with a form and a token
ClientUpload ==
    /\ up.pc = "idle" /\ down.pc = "idle"
    /\ Len(blobs) < MaxBlobs
    /\ \E sub \in ClientSubmissions : \E t \in TokenInputs :
           UploadEncryptedCall(sub, t)

\* the blobs and rows that have been altered since they were stored
Tampered ==
    Cardinality({k \in 1..Len(blobs) : blobs[k].touched})
        + Cardinality({id \in 1..Len(uploads) : sent[id].touched})

\* a stored blob changes: a byte of its iv, its ciphertext, or all of it for
\* the bytes of another blob
TamperBlob(k) ==
    /\ Tampered < MaxTampers
    /\ k \in 1..Len(blobs)
    /\ \E bytes \in {[blobs[k].bytes EXCEPT ![1] = (@ + 1) % (MaxByte + 1)],
                     [blobs[k].bytes EXCEPT ![Len(blobs[k].bytes)].intact = FALSE]}
                        \cup {blobs[j].bytes : j \in 1..Len(blobs)} :
           /\ bytes # blobs[k].bytes
           /\ blobs' = [blobs EXCEPT ![k].bytes = bytes, ![k].touched = TRUE]
    /\ UNCHANGED <<serverVars, verified, zk, get, del, codec, uploads, up, down, sent>>

\* a row of uploads changes: its last chunk descriptor goes, or its fileHash
TamperRecord(id) ==
    /\ Tampered < MaxTampers
    /\ id \in 1..Len(uploads)
    /\ \E row \in {[uploads[id] EXCEPT !.uploadParts = SubSeq(@, 1, Len(@) - 1)],
                   [uploads[id] EXCEPT !.fileHash = combinedHash(<<>>)]} :
           /\ row # uploads[id]
           /\ uploads' = [uploads EXCEPT ![id] = row]
    /\ sent' = [sent EXCEPT ![id].touched = TRUE]
    /\ UNCHANGED <<serverVars, verified, zk, get, del, codec, blobs, up, down>>

\* the keys a downloader may enter: base64Key of a key, or nothing
KeyInputsB64 == {toBase64(key) : key \in generateAesGcmKey} \cup {<<>>}

\* SpecFiles: a logged-in user, uploads and downloads one at a time
InitFiles ==
    /\ now = 0
    /\ ticks = 0
    /\ loginParameter = <<[id |-> 1, publicKey |-> toString(generatePublicKey(0))]>>
    /\ loginChallenges = EmptyMap
    /\ sessions = MapSet(EmptyMap, 1, [expiresAt |-> SESSION_EXPIRY_MS])
    /\ calls = [i \in 1..1 |-> Idle]
    /\ nSessionIds = 1
    /\ minted = <<1>>
    /\ verified = {}
    /\ zk = NoRun
    /\ NoFiles

NextFiles ==
    \/ HandleUpload
    \/ ClientUpload
    \/ \E k \in 1..MaxChunks : \E stored \in BOOLEAN : UtUploadFiles(k, stored)
    \/ UploadEncryptedFinish
    \/ UploadReturn
    \/ \E id \in 0..Len(uploads) : \E keyB64 \in KeyInputsB64 :
           HandleDownloadCall(id, keyB64)
    \/ \E k \in 1..MaxChunks : \E ok \in BOOLEAN : FetchChunk(k, ok)
    \/ \E k \in 1..MaxChunks : CheckChunk(k)
    \/ \E k \in 1..MaxChunks : DecryptChunk(k)
    \/ DownloadMerge
    \/ DownloadReturn
    \/ \E k \in 1..MaxBlobs + MaxChunks : TamperBlob(k)
    \/ \E id \in 1..MaxBlobs : TamperRecord(id)

SpecFiles == InitFiles /\ [][NextFiles]_vars

\* SpecFilesLive: SpecFiles where a continuation that is ready to run does
\* run: the event loop resumes UploadEncrypted once every put is answered
\* and the tasks of handleDownload once their data is there.  Nothing makes
\* a backend answer a put or a fetch.
SpecFilesLive ==
    /\ SpecFiles
    /\ WF_vars(UploadEncryptedFinish)
    /\ WF_vars(UploadReturn)
    /\ \A k \in 1..MaxChunks : WF_vars(CheckChunk(k))
    /\ \A k \in 1..MaxChunks : WF_vars(DecryptChunk(k))
    /\ WF_vars(DownloadMerge)
    /\ WF_vars(DownloadReturn)

---------------------------------------------------------------------------
(* What leaves the browser and the server. *)

\* the strings and byte arrays of the requests under way, one after the
\* other.  To the server:
\* UploadEncrypted(form) with the fields and the chunk files of the form,
\* GetFile(id) with the id.  To the backends: uploadFiles([file]) with the
\* chunk file, fetch(p.url) with the url of the part.
RequestContents ==
    (IF up.pc = "idle" THEN <<>>
     ELSE LET form == up.sub.form IN
          <<form.meta.filename, form.meta.mime, form.file_hash>>
              \o form.chunk_hashes
              \o [k \in 1..Len(form.chunks) |-> form.chunks[k].file.name]
              \o [k \in 1..Len(form.chunks) |-> form.chunks[k].file.bytes]
              \o [k \in 1..Len(up.results) |-> up.files[k].name]
              \o [k \in 1..Len(up.results) |-> up.files[k].bytes])
    \o
    (IF down.pc = "idle" THEN <<>>
     ELSE <<(<<down.id>>)>>
              \o [k \in 1..Len(down.tasks) |-> <<down.meta[1].uploadParts[k].url>>])

\* the characters of base64Key are among those of s.  Terms of different
\* kinds are compared by what they print as.
HoldsKey(s, key) ==
    \E i \in 1..Len(s) : ToString(s[i]) = ToString(toBase64(key)[1])

---------------------------------------------------------------------------
(* DeleteFile. *)

\* the rows of uploads with this id: db.select().from(uploads).where(eq(id))
rowsOf(id) == SelectSeq(uploads, LAMBDA r : r.id = id)

\* DeleteFile(id, sessionToken) up to the select: requireAuth, outside the
\* try block
DeleteFileCall(id, sessionToken) ==
    /\ up.pc = "idle" /\ down.pc = "idle" /\ del.pc = "idle"
    /\ LET auth == verifySession(sessionToken, loginChallenges, sessions, now)
           call == [pc |-> "select", id |-> id, tasks |-> <<>>, ret |-> FALSE,
                    error |-> ""]
       IN
       /\ loginChallenges' = auth.loginChallenges
       /\ sessions' = auth.sessions
       /\ IF sessionToken = NoToken
          THEN del' = [call EXCEPT !.pc = "threw",
                                   !.error = "Authentication required"]
          ELSE IF ~auth.ret
          THEN del' = [call EXCEPT !.pc = "threw",
                                   !.error = "Invalid or expired session"]
          ELSE del' = call
    /\ UNCHANGED <<now, ticks, loginParameter, calls, nSessionIds, minted>>
    /\ UNCHANGED <<verified, zk, get, codec, blobs, uploads, up, down, sent>>

\* variant of DeleteFileSelect that addresses every deletion to utpApis[0]:
\* C37 fails of it
DeleteFileSelectFirstBackend ==
    /\ del.pc = "select"
    /\ LET listKey == rowsOf(del.id) IN
       IF listKey = <<>>
       THEN del' = [del EXCEPT !.pc = "returned", !.ret = FALSE,
                               !.error = "TypeError: Cannot read properties of undefined"]
       ELSE del' = [del EXCEPT
                !.pc = "delete",
                !.tasks = [k \in 1..Len(listKey[1].uploadParts) |->
                              [key |-> listKey[1].uploadParts[k].key,
                               server |-> 0, state |-> "pending"]]]
    /\ UNCHANGED <<serverVars, verified, zk, get, codec, blobs, uploads, up, down, sent>>

\* the select has returned: with no row listKey[0].uploadParts throws and
\* the catch returns false; otherwise the callback of the map starts
\* utDeleteFile(key.key, i) for every part and returns without awaiting it,
\* so that Promise.all has resolved and db.delete is issued
DeleteFileSelect ==
    /\ del.pc = "select"
    /\ LET listKey == rowsOf(del.id) IN
       IF listKey = <<>>
       THEN del' = [del EXCEPT !.pc = "returned", !.ret = FALSE,
                               !.error = "TypeError: Cannot read properties of undefined"]
       ELSE del' = [del EXCEPT
                !.pc = "delete",
                !.tasks = [k \in 1..Len(listKey[1].uploadParts) |->
                              [key |-> listKey[1].uploadParts[k].key,
                               server |-> k - 1,
                               state |-> IF k - 1 \in utpApis
                                         THEN "pending" ELSE "threw"]]]
    /\ UNCHANGED <<serverVars, verified, zk, get, codec, blobs, uploads, up, down, sent>>

\* utDeleteFile(fileId, server): the backend answers deleteFiles, having
\* deleted the file, or with nothing; the rejection is no one's to catch
UtDeleteFile(k, ok) ==
    /\ del.pc # "idle"
    /\ k \in 1..Len(del.tasks)
    /\ del.tasks[k].state = "pending"
    /\ IF ok
       THEN /\ del' = [del EXCEPT !.tasks[k].state = "deleted"]
            /\ blobs' = [j \in 1..Len(blobs) |->
                            IF j = del.tasks[k].key
                                   /\ blobs[j].server = del.tasks[k].server
                            THEN [blobs[j] EXCEPT !.deleted = TRUE]
                            ELSE blobs[j]]
       ELSE /\ del' = [del EXCEPT !.tasks[k].state = "threw"]
            /\ UNCHANGED blobs
    /\ UNCHANGED <<serverVars, verified, zk, get, codec, uploads, up, down, sent>>

\* db.delete(uploads).where(eq(uploads.id, listKey[0].id)): the row goes and
\* DeleteFile returns true, or the query fails and the catch returns false
DeleteFileDelete(ok) ==
    /\ del.pc = "delete"
    /\ IF ok
       THEN /\ uploads' = SelectSeq(uploads, LAMBDA r : r.id # del.id)
            /\ del' = [del EXCEPT !.pc = "returned", !.ret = TRUE]
       ELSE /\ del' = [del EXCEPT !.pc = "returned", !.ret = FALSE,
                                  !.error = "database error"]
            /\ UNCHANGED uploads
    /\ UNCHANGED <<serverVars, verified, zk, get, codec, blobs, up, down, sent>>

\* the caller has the result and the deletions started have been answered
DeleteFileDone ==
    /\ del.pc \in {"returned", "threw"}
    /\ \A k \in 1..Len(del.tasks) : del.tasks[k].state # "pending"
    /\ del' = [pc |-> "idle"]
    /\ UNCHANGED <<serverVars, verified, zk, get, codec, blobs, uploads, up, down, sent>>

\* GetAllFiles(sessionToken): requireAuth, then every row of uploads
GetAllFilesCall(sessionToken) ==
    /\ up.pc = "idle" /\ down.pc = "idle" /\ del.pc = "idle" /\ get.pc = "idle"
    /\ LET auth == verifySession(sessionToken, loginChallenges, sessions, now)
           call == [pc |-> "returned", op |-> "GetAllFiles",
                    token |-> sessionToken, rows |-> <<>>, error |-> ""]
       IN
       /\ loginChallenges' = auth.loginChallenges
       /\ sessions' = auth.sessions
       /\ IF sessionToken = NoToken
          THEN get' = [call EXCEPT !.pc = "threw",
                                   !.error = "Authentication required"]
          ELSE IF ~auth.ret
          THEN get' = [call EXCEPT !.pc = "threw",
                                   !.error = "Invalid or expired session"]
          ELSE get' = [call EXCEPT !.rows = uploads]
    /\ UNCHANGED <<now, ticks, loginParameter, calls, nSessionIds, minted>>
    /\ UNCHANGED <<verified, zk, del, codec, blobs, uploads, up, down, sent>>

\* GetFile(id, sessionToken): the select by id and the fields of rows[0],
\* whatever the token; with no row the TypeError is logged and thrown again
GetFileCall(id, sessionToken) ==
    /\ up.pc = "idle" /\ down.pc = "idle" /\ del.pc = "idle" /\ get.pc = "idle"
    /\ LET rows == rowsOf(id)
           call == [pc |-> "returned", op |-> "GetFile",
                    token |-> sessionToken, rows |-> <<>>, error |-> ""]
       IN
       IF rows = <<>>
       THEN get' = [call EXCEPT !.pc = "threw",
                                !.error = "TypeError: Cannot read properties of undefined"]
       ELSE get' = [call EXCEPT !.rows = <<rows[1]>>]
    /\ UNCHANGED <<serverVars, verified, zk, del, codec, blobs, uploads, up, down, sent>>

\* the caller has the rows or the error
GetReturn ==
    /\ get.pc \in {"returned", "threw"}
    /\ get' = [pc |-> "idle"]
    /\ UNCHANGED <<serverVars, verified, zk, del, codec, blobs, uploads, up, down, sent>>

\* SpecDelete: a logged-in user uploads files and deletes them
NextDelete ==
    \/ ClientUpload
    \/ \E k \in 1..MaxChunks : \E stored \in BOOLEAN : UtUploadFiles(k, stored)
    \/ UploadEncryptedFinish
    \/ UploadReturn
    \/ \E id \in 1..MaxBlobs + 1 : \E t \in TokenInputs : DeleteFileCall(id, t)
    \/ DeleteFileSelect
    \/ \E k \in 1..MaxChunks : \E ok \in BOOLEAN : UtDeleteFile(k, ok)
    \/ \E ok \in BOOLEAN : DeleteFileDelete(ok)
    \/ DeleteFileDone

SpecDelete == InitFiles /\ [][NextDelete]_vars

\* SpecAuth: the file actions called with every token, while the user logs
\* out and the clock advances
NextAuth ==
    \/ get.pc = "idle" /\ del.pc = "idle" /\ ClientUpload
    \/ \E k \in 1..MaxChunks : \E stored \in BOOLEAN : UtUploadFiles(k, stored)
    \/ UploadEncryptedFinish
    \/ UploadReturn
    \/ \E id \in 1..MaxBlobs + 1 : \E t \in TokenInputs :
           get.pc = "idle" /\ DeleteFileCall(id, t)
    \/ DeleteFileSelect
    \/ \E k \in 1..MaxChunks : \E ok \in BOOLEAN : UtDeleteFile(k, ok)
    \/ \E ok \in BOOLEAN : DeleteFileDelete(ok)
    \/ DeleteFileDone
    \/ \E t \in TokenInputs : GetAllFilesCall(t)
    \/ \E id \in 1..MaxBlobs + 1 : \E t \in TokenInputs : GetFileCall(id, t)
    \/ GetReturn
    \/ \E t \in TokenInputs \ {NoToken} : Logout(t)
    \/ Clock

SpecAuth == InitFiles /\ [][NextAuth]_vars

---------------------------------------------------------------------------
(* The claims of the specification. *)

RECURSIVE Power(_, _)
Power(a, n) == IF n = 0 THEN 1 ELSE a * Power(a, n - 1)

\* a^e mod m in the integers modulo m; for e < 0 the inverse of a^(-e)
PowerMod(a, e, m) ==
    IF e >= 0 THEN Power(a, e) % m
    ELSE CHOOSE y \in 0..(m - 1) : (y * Power(a, 0 - e)) % m = 1

\* g^b mod p == (V * X^c) mod p
ProofHolds(V, X, c, b) ==
    LET P == getPublicParameters
    IN  PowerMod(P.g, b, P.p) = PowerMod(V * Power(X, c), 1, P.p)

\* the public keys generatePublicKey can return: g^x mod p, x in [1, q-1]
HonestKeys ==
    {toString(generatePublicKey(h)) : h \in 0..(getPublicParameters.q - 2)}

\* call i resolves in this step
Returns(i, op) ==
    /\ calls'[i].op = op
    /\ calls[i].pc # "done"
    /\ calls'[i].pc = "done"

\* verifySession(t) would return true
Valid(t) == verifySession(t, loginChallenges, sessions, now).ret

\* verifySession(t) would return true after the step
ValidNext(t) == verifySession(t, loginChallenges', sessions', now').ret

Returned(i, op) == calls[i].op = op /\ calls[i].pc = "done"

\* C1: when a loginStep2(S, b) call has returned, with whatever result and
\* whatever b, the challenge of S is no longer in the challenge map (so that
\* every later loginStep2(S, b') finds none and fails).
C1_ChallengeConsumed ==
    \A i \in Slots :
        Returned(i, "loginStep2") => calls[i].id \notin DOMAIN loginChallenges

\* C2: under any interleaving of loginStep2 calls, at most one session token
\* is minted per issued challenge.
C2_OneTokenPerChallenge ==
    \A t1, t2 \in DOMAIN minted : minted[t1] = minted[t2] => t1 = t2

\* C3: every entry of the sessions map is created by a loginStep2 call whose
\* challenge (V, c), the Identity Record's X and the b supplied satisfy
\* g^b mod p == (V * X^c) mod p; a loginStep2 call that fails adds no entry.
C3_SessionsFromValidProofs ==
    [][/\ \A t \in DOMAIN sessions' \ DOMAIN sessions :
             \E i \in Slots :
                 /\ Returns(i, "loginStep2")
                 /\ calls[i].pc = "selected"
                 /\ calls'[i].ret[1].success
                 /\ calls'[i].ret[1].sessionToken = t
                 /\ ProofHolds(calls[i].chal[1].V,
                               BigInt(calls[i].rows[1].publicKey).v,
                               calls[i].chal[1].c,
                               BigInt(calls[i].arg).v)
       /\ \A i \in Slots :
             Returns(i, "loginStep2") /\ ~calls'[i].ret[1].success
                 => DOMAIN sessions' \subseteq DOMAIN sessions
      ]_vars

\* C4: a login with the secret of the registration, v and c in [1, q-1], X, V
\* and b computed by generatePublicKey, clientLoginStep1 and clientLoginStep2,
\* is accepted by serverVerify.
C4_HonestLoginVerifies ==
    zk.stage = "verified" /\ KDF(zk.login, zk.P.q) = KDF(zk.hash, zk.P.q)
        => zk.isValid = "true"

\* an accepted login in the larger group, with another passphrase of the same
\* secret and v + c*x reduced modulo q
C4_Witness ==
    /\ zk.stage = "verified"
    /\ zk.P.q = MaxGroupQ
    /\ zk.login # zk.hash
    /\ KDF(zk.login, zk.P.q) = KDF(zk.hash, zk.P.q)
    /\ zk.v + zk.c * zk.x >= zk.P.q
    /\ zk.isValid = "true"

C6_ReplayRejected ==
    \A r1, r2 \in verified : r1.V = r2.V /\ r1.b = r2.b => r1.c = r2.c

\* C6, amended: a pair (V, b) accepted against the challenge c and the public
\* key X = g^x mod p, x in [1, q-1], is accepted against no other challenge
\* while the Identity Record holds the same X.
C6_ReplayRejectedSameKey ==
    \A r1, r2 \in verified :
        r1.V = r2.V /\ r1.b = r2.b /\ r1.X = r2.X /\ r1.X \in HonestKeys
            => r1.c = r2.c

\* a loginStep2 call has rejected, against another challenge and the same
\* key, a pair (V, b) accepted before
C6_Witness ==
    \E r \in verified : \E i \in Slots :
        /\ Returned(i, "loginStep2")
        /\ ~calls[i].ret[1].success
        /\ calls[i].chal # <<>> /\ calls[i].rows # <<>>
        /\ calls[i].chal[1].V = r.V
        /\ calls[i].arg = r.b
        /\ calls[i].rows[1].publicKey = r.X
        /\ r.X \in HonestKeys
        /\ calls[i].chal[1].c # r.c
        /\ calls[i].id \notin DOMAIN loginChallenges

\* C7: the token of a successful loginStep2 is valid when the call returns and
\* expires SESSION_EXPIRY_MS later; after logout(token) verifySession(token)
\* is false; once the expiry time has passed it is false; and once false it
\* stays false, whatever runs.
C7_SessionLifecycle ==
    [][/\ \A i \in Slots :
             Returns(i, "loginStep2") /\ calls'[i].ret[1].success
                 => /\ ValidNext(calls'[i].ret[1].sessionToken)
                    /\ sessions'[calls'[i].ret[1].sessionToken].expiresAt
                           = now' + SESSION_EXPIRY_MS
       /\ \A t \in DOMAIN minted :
             /\ Logout(t) => ~ValidNext(t)
             /\ ~Valid(t) => ~ValidNext(t)
             /\ t \in DOMAIN sessions /\ t \in DOMAIN sessions'
                    => sessions'[t].expiresAt = sessions[t].expiresAt
             /\ t \in DOMAIN sessions' /\ now' > sessions'[t].expiresAt
                    => ~ValidNext(t)
      ]_vars

\* of two tokens one has been removed, the other is still in the map with its
\* expiry time passed
C7_Witness ==
    \E t1, t2 \in DOMAIN minted :
        /\ t1 \notin DOMAIN sessions
        /\ t2 \in DOMAIN sessions
        /\ now > sessions[t2].expiresAt
        /\ ~Valid(t1) /\ ~Valid(t2)

\* C8: under any interleaving of register calls there is at most one Identity
\* Record; a register call made while one exists fails, and no step of a
\* register call changes an existing record.
C8_SingleIdentity ==
    [][/\ Len(loginParameter') <= 1
       /\ \A i \in Slots :
             Returns(i, "register") /\ calls'[i].pre[1].loginParameter # <<>>
                 => ~calls'[i].ret[1].success
       /\ \A i \in Slots :
             /\ calls[i].op = "register" \/ calls'[i].op = "register"
             /\ calls'[i] # calls[i]
             /\ loginParameter # <<>>
             => loginParameter' = loginParameter
      ]_vars

\* two register calls have raced: one has inserted its key, the other, made
\* while there was no record, has been refused with another key
C8_Witness ==
    \E i \in Slots :
        /\ Returned(i, "register")
        /\ ~calls[i].ret[1].success
        /\ calls[i].pre[1].loginParameter = <<>>
        /\ Len(loginParameter) = 1
        /\ loginParameter[1].publicKey # calls[i].arg

\* C9: a changePassphrase(token, newX) call that returns success was made
\* with a token valid at the time and an Identity Record in place; when it
\* returns, the record's key is newX, the sessions map is empty and no token
\* issued before is valid.
C9_ChangeTakesEffect ==
    \A i \in Slots :
        Returned(i, "changePassphrase") /\ calls[i].ret[1].success
            => /\ calls[i].id \in DOMAIN calls[i].pre[1].sessions
               /\ ~(calls[i].pre[1].now
                        > calls[i].pre[1].sessions[calls[i].id].expiresAt)
               /\ calls[i].pre[1].loginParameter # <<>>
               /\ Len(loginParameter) = 1
               /\ loginParameter[1].publicKey = calls[i].arg
               /\ sessions = EmptyMap
               /\ \A t \in DOMAIN minted : ~Valid(t)

\* the entries of ss whose expiry time has not passed at time t
Unexpired(ss, t) == [x \in {y \in DOMAIN ss : ss[y].expiresAt >= t} |-> ss[x]]

\* C10 as stated: when changePassphrase returns failure, the Identity Record
\* and the sessions map are what they were when the call was made.
C10_FailureChangesNothing ==
    \A i \in Slots :
        Returned(i, "changePassphrase") /\ ~calls[i].ret[1].success
            => /\ loginParameter = calls[i].pre[1].loginParameter
               /\ sessions = calls[i].pre[1].sessions

\* C10, amended: when changePassphrase returns failure, the Identity Record
\* is what it was when the call was made, and the sessions map is what it
\* was then, less the entries whose expiry time had passed if a token was
\* supplied.
C10_FailureKeepsLiveState ==
    \A i \in Slots :
        Returned(i, "changePassphrase") /\ ~calls[i].ret[1].success
            => /\ loginParameter = calls[i].pre[1].loginParameter
               /\ sessions = IF calls[i].id = NoToken
                             THEN calls[i].pre[1].sessions
                             ELSE Unexpired(calls[i].pre[1].sessions,
                                            calls[i].pre[1].now)

\* a changePassphrase call with an expired token has failed; a session that
\* was live when it was made is still there, the expired one is gone
C10_Witness ==
    \E i \in Slots :
        /\ Returned(i, "changePassphrase")
        /\ ~calls[i].ret[1].success
        /\ sessions # calls[i].pre[1].sessions
        /\ sessions # EmptyMap
        /\ calls[i].id \in DOMAIN calls[i].pre[1].sessions

\* the numeric field of call i (X, V, b or newX) is not the decimal encoding
\* of an integer
MalformedField(i) ==
    /\ calls[i].op \in {"register", "loginStep1", "loginStep2",
                        "changePassphrase"}
    /\ ~BigInt(calls[i].arg).ok

\* C11: a register, loginStep1, loginStep2 or changePassphrase call whose
\* numeric field is not the decimal encoding of an integer returns
\* success = false, and the Identity Record is what it was when the call was
\* made.
C11_MalformedRejected ==
    \A i \in Slots :
        MalformedField(i) /\ calls[i].pc = "done"
            => /\ ~calls[i].ret[1].success
               /\ calls[i].op \in {"register", "changePassphrase"}
                      => loginParameter = calls[i].pre[1].loginParameter


\* C12: the public key held in the Identity Record is the decimal encoding of
\* an integer in [0, p).
C12_StoredKeyInGroup ==
    \A r \in 1..Len(loginParameter) :
        /\ BigInt(loginParameter[r].publicKey).ok
        /\ BigInt(loginParameter[r].publicKey).v
               \in 0..(getPublicParameters.p - 1)

\* call i ended in the catch block of its server action: serverVerify or the
\* database threw, and the result carries the message of the error
Threw(i) ==
    /\ calls[i].ret # <<>>
    /\ ~calls[i].ret[1].success
    /\ calls[i].ret[1].error
           \in {"SyntaxError: Cannot convert to a BigInt", "database error"}

\* C13: the result of a failed loginStep2 is the same whether the sessionId
\* is unknown, the challenge has expired, there is no Identity Record or the
\* proof is invalid: each is the result returned for an unknown sessionId.
C13_FailuresIndistinguishable ==
    \A i \in Slots :
        Returned(i, "loginStep2") /\ ~calls[i].ret[1].success /\ ~Threw(i)
            => calls[i].ret =
                   Failure("Invalid or expired session. Please try logging in again.")

\* C18: combineFiles applied to the chunks of splitFile(file, n) of
\* lib/utils/file.ts, in the order returned, yields the bytes of the file,
\* for every file of length >= 1 and every n >= 1.
C18_CodecRoundTrip ==
    codec.stage = "combined" /\ codec.splitter = "file"
        => codec.out.bytes = codec.file.bytes

\* C19: a split of s >= 1 bytes into n yields n chunks whenever s >= n, each
\* of ceil(s/n) bytes except the last, which holds the remainder; fewer than
\* n chunks only when s < n; no empty chunk.
C19_SplitShape ==
    codec.stage \in {"split", "combined"} /\ Len(codec.file.bytes) >= 1 =>
        LET s == Len(codec.file.bytes)
            n == codec.n
            k == Len(codec.chunks)
        IN  /\ s >= n => k = n
            /\ k < n => s < n
            /\ k >= 1
            /\ \A j \in 1..k :
                   /\ Len(codec.chunks[j].bytes) >= 1
                   /\ j < k => Len(codec.chunks[j].bytes) = Ceil(s, n)
            /\ Len(codec.chunks[k].bytes) = s - (k - 1) * Ceil(s, n)

\* what UploadEncrypted is to refuse in a form: the chunk count is not the
\* hash count, a chunk does not hash to the hash claimed for it, or file_hash
\* is not the hash of the chunk hashes
Defective(form) ==
    \/ Len(form.chunks) # Len(form.chunk_hashes)
    \/ \E k \in 1..Len(form.chunks) :
           toBase64(sha256(sortByIndex(form.chunks)[k].file.bytes))
               # form.chunk_hashes[k]
    \/ combinedHash(form.chunk_hashes) # form.file_hash

\* the upload in progress is to be refused: its form is defective or one of
\* its puts returned no key
Refused(u) ==
    /\ u.pc # "idle"
    /\ \/ Defective(u.sub.form)
       \/ \E k \in 1..Len(u.results) : u.results[k].state = "nokey"

\* C14: an UploadEncrypted call that finds a chunk count other than the hash
\* count, a chunk that does not hash to its claimed hash, a file_hash other
\* than the hash of the chunk hashes, or a put that returned no key, throws
\* and inserts no Upload Record; a record is inserted only by a call whose
\* checks have all passed and whose chunks are all stored.
C14_AllOrNothing ==
    [][/\ Refused(up')
           => /\ up'.pc # "done"
              /\ Len(uploads') = Len(uploads)
       /\ Refused(up) /\ up'.pc = "idle" => up.pc = "failed"
       /\ up'.pc = "failed" => Len(uploads') = Len(uploads)
       /\ Len(uploads') > Len(uploads)
           => /\ up.pc = "putting" /\ up'.pc = "done"
              /\ ~Defective(up.sub.form)
              /\ \A k \in 1..Len(up.files) :
                     /\ up.results[k].state = "stored"
                     /\ blobs[up.results[k].key].original = up.files[k].bytes
                     /\ uploads'[up'.id].uploadParts[k].key = up.results[k].key
                     /\ uploads'[up'.id].uploadParts[k].hash
                            = up.sub.form.chunk_hashes[k]
              /\ Len(uploads'[up'.id].uploadParts) = Len(up.files)
              /\ uploads'[up'.id].fileHash = up.sub.form.file_hash
      ]_vars

\* an upload has been refused for its file_hash after its three chunks were
\* stored, and there is no record
C14_Witness ==
    /\ up.pc = "failed"
    /\ up.error = "file_hash mismatch"
    /\ Len(up.files) = MaxUploadSize
    /\ \A k \in 1..Len(up.files) : up.results[k].state = "stored"
    /\ uploads = <<>>

\* the download in progress is of a record made from a form of handleUpload,
\* the record and its blobs have not been altered since they were stored,
\* and the key is the uploader's
Untouched ==
    /\ down.pc # "idle"
    /\ down.id \in 1..Len(uploads)
    /\ sent[down.id].sub \in PageSubmissions
    /\ ~sent[down.id].touched
    /\ \A k \in 1..Len(uploads[down.id].uploadParts) :
           ~blobs[uploads[down.id].uploadParts[k].url].touched
    /\ down.keyB64 = toBase64(sent[down.id].sub.key)

Mismatch(k) ==
    /\ down.tasks[k].buf # <<>>
    /\ toBase64(sha256(down.tasks[k].buf)) # down.meta[1].uploadParts[k].hash

\* C16: when the bytes fetched for a chunk do not hash to the descriptor's
\* hash, handleDownload fails and hands over no file, whatever the other
\* chunks are; no chunk is decrypted unless its hash check has passed.
C16_FailsClosed ==
    down.pc # "idle" =>
        /\ \A k \in 1..Len(down.tasks) :
               Mismatch(k) => down.tasks[k].pc \in {"fetched", "threw"}
        /\ (\E k \in 1..Len(down.tasks) : Mismatch(k))
               => /\ down.pc # "complete"
                  /\ down.file = <<>>
        /\ (\E k \in 1..Len(down.tasks) :
                Mismatch(k) /\ down.tasks[k].pc # "fetched")
               => down.pc = "failed"

\* a download of three chunks has failed on the hash of the second, the
\* others are decrypted, and there is no file
C16_Witness ==
    /\ down.pc = "failed"
    /\ Len(down.tasks) = MaxUploadSize
    /\ Mismatch(2)
    /\ down.tasks[2].pc = "threw"
    /\ down.tasks[1].pc = "decrypted"
    /\ down.tasks[3].pc = "decrypted"
    /\ down.file = <<>>

\* C17: handleDownload recomputes the file hash from the record's chunk
\* hashes, in order, and fails when it is not the record's fileHash.
C17_FileHashRechecked ==
    down.pc = "complete" =>
        combinedHash([k \in 1..Len(down.meta[1].uploadParts) |->
                         down.meta[1].uploadParts[k].hash])
            = down.meta[1].fileHash

\* C20: chunk i of an accepted upload is put to backend i mod N, N the
\* number of backends; an upload of more than N chunks has a backend for
\* every chunk.
C20_BackendOfChunk ==
    up.pc # "idle" =>
        \A k \in 1..Len(up.results) :
            /\ up.results[k].state # "threw"
            /\ up.results[k].state = "stored"
                   => blobs[up.results[k].key].server
                          = (k - 1) % Cardinality(utpApis)


\* C21: cascading delete.  When DeleteFile(id) has returned true, the row of
\* uploads for id is gone and every remote deletion it started has completed
\* with the chunk deleted; and while a remote deletion has failed or is
\* still under way, the row is kept and DeleteFile does not return true.
C21_CascadingDelete ==
    /\ (del.pc = "returned" /\ del.ret) =>
           /\ rowsOf(del.id) = <<>>
           /\ \A k \in 1..Len(del.tasks) :
                  /\ del.tasks[k].state = "deleted"
                  /\ blobs[del.tasks[k].key].deleted
    /\ (/\ del.pc \in {"delete", "returned"}
        /\ \E k \in 1..Len(del.tasks) : del.tasks[k].state # "deleted") =>
           /\ rowsOf(del.id) # <<>>
           /\ ~del.ret

\* C22: key confidentiality towards the server.  No request under way to the
\* server or to a storage backend (the upload form and its chunk files, the
\* puts, GetFile, the fetches) contains the AES key of any upload, while the
\* uploader holds it and the downloader has entered it.
C22_KeyStaysWithClient ==
    \A r \in 1..Len(RequestContents) : \A key \in generateAesGcmKey :
        ~HoldsKey(RequestContents[r], key)

\* a download of a committed upload of the page's form is fetching its chunks
\* with the right key entered, one chunk already decrypted
C22_Witness ==
    /\ down.pc = "chunks"
    /\ down.id \in 1..Len(uploads)
    /\ sent[down.id].sub \in PageSubmissions
    /\ down.keyB64 = toBase64(sent[down.id].sub.key)
    /\ \E k \in 1..Len(down.tasks) : down.tasks[k].pc = "decrypted"
    /\ \E k \in 1..Len(down.tasks) : down.tasks[k].pc = "fetch"

\* C23: an entry whose expiry time has passed is reported absent although no
\* sweep has removed it.  A loginStep2 call on a sessionId that is in the
\* challenge map with its expiry time passed returns success = false at once,
\* before the select and with no proof verified, and takes the entry out; and
\* verifySession on a token that is in the sessions map with its expiry time
\* passed returns false.
C23_ExpiredIsAbsent ==
    [][/\ \A i \in Slots :
             /\ calls[i].op = "idle" /\ calls'[i].op = "loginStep2"
             /\ calls'[i].id \in DOMAIN loginChallenges
             /\ now > loginChallenges[calls'[i].id].expiresAt
             => /\ calls'[i].pc = "done"
                /\ ~calls'[i].ret[1].success
                /\ calls'[i].id \notin DOMAIN loginChallenges'
                /\ verified' = verified /\ sessions' = sessions
       /\ \A t \in DOMAIN sessions :
             now > sessions[t].expiresAt => ~Valid(t)
      ]_vars

\* a loginStep2 call has been refused for its expired challenge while an
\* expired session token is still in the sessions map
C23_Witness ==
    /\ \E i \in Slots :
           /\ Returned(i, "loginStep2")
           /\ calls[i].ret = Failure("Challenge expired. Please try logging in again.")
    /\ \E t \in DOMAIN sessions : now > sessions[t].expiresAt /\ ~Valid(t)

\* C24: bounded garbage.  As a call that has put an entry into the challenge
\* map (loginStep1) or into the sessions map (a successful loginStep2)
\* returns, neither map holds an entry whose expiry time is earlier than the
\* current time.
C24_NoGarbageAfterInsert ==
    [][\A i \in Slots :
          /\ Returns(i, "loginStep1") \/ Returns(i, "loginStep2")
          /\ calls'[i].ret[1].success
          => /\ \A s \in DOMAIN loginChallenges' :
                    ~(loginChallenges'[s].expiresAt < now')
             /\ \A t \in DOMAIN sessions' :
                    ~(sessions'[t].expiresAt < now')
             /\ IF calls'[i].op = "loginStep1"
                THEN calls'[i].ret[1].sessionId \in DOMAIN loginChallenges'
                ELSE calls'[i].ret[1].sessionToken \in DOMAIN sessions'
      ]_vars

\* a loginStep1 call has returned with its challenge stored; a session that
\* was in the map past its expiry time when the call was made is gone
C24_Witness ==
    \E i \in Slots :
        /\ Returned(i, "loginStep1")
        /\ calls[i].ret[1].success
        /\ calls[i].ret[1].sessionId \in DOMAIN loginChallenges
        /\ \E t \in DOMAIN calls[i].pre[1].sessions :
               /\ calls[i].pre[1].now > calls[i].pre[1].sessions[t].expiresAt
               /\ t \notin DOMAIN sessions

\* C25: no indefinite blocking.  Every UploadEncrypted call that has issued
\* its puts ends in success or failure, and every handleDownload run that has
\* issued its fetches ends in completion or failure, whether or not the
\* backends answer.
C25_NoIndefiniteBlocking ==
    /\ (up.pc = "putting") ~> (up.pc \in {"done", "failed"})
    /\ (down.pc = "chunks") ~> (down.pc \in {"complete", "failed"})

\* call i is a loginStep2 call about to verify the honest proof of passphrase
\* hash h: the record read is X = g^KDF(h) mod p, the challenge stored holds
\* V = g^v mod p, and b is clientLoginStep2(v, c, x) for the c of the challenge
HonestRun(i, h) ==
    /\ calls[i].op = "loginStep2" /\ calls[i].pc = "selected"
    /\ calls[i].rows # <<>>
    /\ calls[i].rows[1].publicKey = toString(generatePublicKey(h))
    /\ \E v \in ClientNonces :
           /\ calls[i].chal[1].V = clientLoginStep1(h, v).V
           /\ calls[i].arg =
                  toString(clientLoginStep2(v, toString(calls[i].chal[1].c),
                                            clientLoginStep1(h, v).x))

\* C26: registration, then login.  A register(X) call that returns success
\* was made with no Identity Record and leaves X as the record; with a record
\* there isRegistered() returns true; and the loginStep2 call of an honest
\* run with the passphrase of the registration returns success with a
\* session token for which verifySession returns true.
C26_RegisterThenLogin ==
    [][\A i \in Slots :
          /\ Returns(i, "register") /\ calls'[i].ret[1].success
                 => /\ calls'[i].pre[1].loginParameter = <<>>
                    /\ loginParameter' = <<[id |-> 1, publicKey |-> calls'[i].arg]>>
          /\ (Returns(i, "isRegistered") /\ calls[i].pc = "selected"
                  /\ loginParameter # <<>>)
                 => calls'[i].ret[1].success
          /\ \A h \in 0..(getPublicParameters.q - 2) :
                 HonestRun(i, h) /\ Returns(i, "loginStep2")
                     => /\ calls'[i].ret[1].success
                        /\ calls'[i].ret[1].sessionToken # NoToken
                        /\ calls'[i].ret[1].sessionToken \in DOMAIN sessions'
                        /\ ValidNext(calls'[i].ret[1].sessionToken)
      ]_vars

\* the honest run of the first registration has returned its session token,
\* which is valid, on a challenge other than 1
C26_Witness ==
    \E i \in Slots :
        /\ Returned(i, "loginStep2")
        /\ calls[i].ret[1].success
        /\ Valid(calls[i].ret[1].sessionToken)
        /\ calls[i].chal[1].c # 1
        /\ calls[i].rows = loginParameter
        /\ \E h \in 0..(getPublicParameters.q - 2) : \E v \in ClientNonces :
               /\ calls[i].rows[1].publicKey = toString(generatePublicKey(h))
               /\ calls[i].chal[1].V = clientLoginStep1(h, v).V
               /\ calls[i].arg =
                      toString(clientLoginStep2(v, toString(calls[i].chal[1].c),
                                                clientLoginStep1(h, v).x))

\* C27: modPow(base, exponent, modulus) is base^exponent mod modulus for every
\* base >= 0, exponent >= 0 and modulus >= 1, which is 1 mod modulus for
\* exponent 0 and 0 for modulus 1, and the three copies of modPow in zkp.ts
\* return the same value.
C27_ModPowIsPower ==
    zk.stage = "modPowDone" =>
        /\ \A k \in 1..3 :
               zk.out[k] = Power(zk.base, zk.exponent) % zk.modulus
        /\ zk.exponent = 0 => \A k \in 1..3 : zk.out[k] = 1 % zk.modulus
        /\ zk.modulus = 1 => \A k \in 1..3 : zk.out[k] = 0
        /\ zk.out[1] = zk.out[2] /\ zk.out[2] = zk.out[3]

\* the three copies have answered for a base above the modulus and an exponent
\* of more than one bit
C27_Witness ==
    /\ zk.stage = "modPowDone"
    /\ zk.base > zk.modulus
    /\ zk.exponent >= 3
    /\ zk.modulus > 2
    /\ zk.out[3] > 1

\* C28: getSecureRandomBigInt(min, max) throws when max < min and only then;
\* otherwise, whatever bytes are drawn, a draw of max - min + 1 or more is
\* discarded and the value returned is r = draw + min with min <= r <= max;
\* and every value of min..max can be returned.
C28_RandomInRange ==
    /\ zk.stage = "threw" => zk.max < zk.min
    /\ zk.stage \in {"drawing", "returned"} =>
           /\ zk.max >= zk.min
           /\ zk.range = zk.max - zk.min + 1
    /\ (zk.stage = "drawing" /\ zk.draws > 0) =>
           /\ zk.randomBigInt >= zk.max - zk.min + 1
           /\ zk.out = <<>>
    /\ zk.stage = "returned" =>
           /\ zk.randomBigInt < zk.max - zk.min + 1
           /\ zk.out = <<zk.randomBigInt + zk.min>>
           /\ zk.out[1] \in zk.min..zk.max
    /\ (zk.stage = "drawing" /\ zk.draws = 0) =>
           \A r \in zk.min..zk.max :
               ENABLED (RandomDraw /\ zk'.out = <<r>>)

\* a call on a range of more than 256 values has discarded a draw and then
\* returned a value above 255
C28_Witness ==
    /\ zk.stage = "returned"
    /\ zk.byteLength = 2
    /\ zk.draws = 2
    /\ zk.out[1] > 256

placeByIndex(form, c) ==
    1 + Cardinality({c2 \in 1..Len(form.chunks) :
                        form.chunks[c2].index < form.chunks[c].index})

\* C30: for every row of uploads as UploadEncrypted inserted it, uploadParts
\* holds one descriptor per submitted chunk, in the order of the chunk
\* indices; the hash of descriptor i is the base64 SHA-256 of the bytes stored
\* under the key of descriptor i, as long as the stored bytes are the ones
\* put; and fileHash is the base64 SHA-256 of the descriptor hashes joined in
\* that order.
C30_CommittedRecordIntegrity ==
    \A id \in 1..Len(uploads) :
        ~sent[id].touched =>
            LET row == uploads[id]
                form == sent[id].sub.form
                parts == row.uploadParts
            IN
            /\ Len(parts) = Len(form.chunks)
            /\ \A c \in 1..Len(form.chunks) :
                   LET i == placeByIndex(form, c) IN
                   /\ i \in 1..Len(parts)
                   /\ parts[i].key \in 1..Len(blobs)
                   /\ parts[i].name = form.chunks[c].file.name
                   /\ blobs[parts[i].key].original = form.chunks[c].file.bytes
            /\ \A i \in 1..Len(parts) :
                   (parts[i].key \in 1..Len(blobs) /\ ~blobs[parts[i].key].touched)
                   => parts[i].hash = toBase64(sha256(blobs[parts[i].key].bytes))
            /\ row.fileHash =
                   toBase64(sha256(encode(join([i \in 1..Len(parts) |->
                                                   parts[i].hash]))))

\* a row is there for a form whose chunks, of different bytes, were appended
\* from the last to the first, and whose puts were not answered in the order
\* of the indices; nothing has been altered
C30_Witness ==
    \E id \in 1..Len(uploads) :
        LET form == sent[id].sub.form
            parts == uploads[id].uploadParts IN
        /\ ~sent[id].touched
        /\ Len(form.chunks) >= 2
        /\ form.chunks[1].index > form.chunks[2].index
        /\ form.chunks[1].file.bytes # form.chunks[2].file.bytes
        /\ parts[1].key > parts[2].key
        /\ \A k \in 1..Len(blobs) : ~blobs[k].touched

\* the plaintext inside the bytes iv || ciphertext of a chunk
plaintextOf(bytes) == bytes[Len(bytes)].plaintext

\* C31: in whatever order the puts of UploadEncrypted are answered and the
\* fetch, verify and decrypt tasks of handleDownload finish, result i of the
\* puts and descriptor i of the row are those of chunk i, slot i of
\* plaintextChunks is the plaintext of the bytes task i fetched, which is the
\* plaintext of chunk i when nothing was altered, and the file handed over is
\* the slots joined in the order of the indices.
C31_CompletionOrderIndependence ==
    /\ (up.pc # "idle") =>
           \A k \in 1..Len(up.results) :
               up.results[k].state = "stored" =>
                   /\ blobs[up.results[k].key].original = up.files[k].bytes
                   /\ blobs[up.results[k].key].server = k - 1
    /\ \A id \in 1..Len(uploads) :
           ~sent[id].touched =>
               \A c \in 1..Len(sent[id].sub.form.chunks) :
                   LET chunk == sent[id].sub.form.chunks[c]
                       part == uploads[id].uploadParts[chunk.index + 1]
                   IN  /\ blobs[part.key].original = chunk.file.bytes
                       /\ blobs[part.key].server = chunk.index
    /\ (down.pc # "idle" /\ down.meta # <<>>) =>
           /\ \A k \in 1..Len(down.tasks) :
                  down.tasks[k].pc = "decrypted" =>
                      /\ down.plaintextChunks[k] = plaintextOf(down.tasks[k].buf)
                      /\ (/\ ~sent[down.id].touched
                          /\ ~blobs[down.meta[1].uploadParts[k].url].touched)
                         => \E c \in 1..Len(sent[down.id].sub.form.chunks) :
                                LET chunk == sent[down.id].sub.form.chunks[c] IN
                                /\ chunk.index = k - 1
                                /\ down.plaintextChunks[k]
                                       = plaintextOf(chunk.file.bytes)
           /\ down.pc = "complete" =>
                  down.file[1].bytes =
                      concatBytes([k \in 1..Len(down.tasks) |->
                                      plaintextOf(down.tasks[k].buf)])

\* the put of chunk 1 was answered before the put of chunk 0, and task 1 of
\* the download has its plaintext, other than the one of chunk 0, in slot 1
\* while task 0 has not fetched yet
C31_Witness ==
    /\ down.pc = "chunks"
    /\ Len(down.tasks) >= 2
    /\ down.tasks[1].pc = "fetch"
    /\ down.tasks[2].pc = "decrypted"
    /\ down.meta[1].uploadParts[1].key > down.meta[1].uploadParts[2].key
    /\ down.plaintextChunks[2] # <<>>
    /\ down.plaintextChunks[2]
           # plaintextOf(blobs[down.meta[1].uploadParts[1].url].bytes)

\* every part chunk<i> of the form hashes to chunk_hashes[i], and there are as
\* many hashes as parts
PairedByName(form) ==
    /\ Len(form.chunks) = Len(form.chunk_hashes)
    /\ \A c \in 1..Len(form.chunks) :
           toBase64(sha256(form.chunks[c].file.bytes))
               = form.chunk_hashes[form.chunks[c].index + 1]

\* C32: wherever the parts chunk0 .. chunk(k-1) stand in the form, a call of
\* UploadEncrypted that is authorized passes the hash check exactly when every
\* part chunk<i> hashes to chunk_hashes[i], it then puts the part chunk<i> as
\* file i, and the row it inserts has as descriptor i the name and the stored
\* bytes of the part chunk<i> with the hash chunk_hashes[i].
C32_PartsPairedByName ==
    [][/\ (/\ up.pc = "idle"
           /\ up'.pc # "idle"
           /\ up'.error \notin {"Authentication required",
                                 "Invalid or expired session",
                                 "Missing required fields: meta, file_hash, chunk_hashes"})
          => LET form == up'.sub.form IN
             /\ PairedByName(form)
                    <=> up'.error \notin {"Chunk hash mismatch",
                                          "Chunk count does not match hash count"}
             /\ PairedByName(form) =>
                    \A c \in 1..Len(form.chunks) :
                        up'.files[form.chunks[c].index + 1] = form.chunks[c].file
       /\ (up.pc = "putting" /\ up'.pc = "done")
          => LET form == up.sub.form
                 row == uploads'[up'.id]
             IN  \A c \in 1..Len(form.chunks) :
                     LET i == form.chunks[c].index + 1 IN
                     /\ row.uploadParts[i].hash = form.chunk_hashes[i]
                     /\ row.uploadParts[i].name = form.chunks[c].file.name
                     /\ blobs[row.uploadParts[i].key].original
                            = form.chunks[c].file.bytes
                     /\ toBase64(sha256(form.chunks[c].file.bytes))
                            = row.uploadParts[i].hash
      ]_vars

\* a row is there for a form whose parts chunk1, chunk0, of different bytes,
\* stand in that order
C32_Witness ==
    /\ up.pc = "done"
    /\ LET form == up.sub.form IN
       /\ Len(form.chunks) >= 2
       /\ form.chunks[1].index = Len(form.chunks) - 1
       /\ form.chunks[Len(form.chunks)].index = 0
       /\ form.chunks[1].file.bytes # form.chunks[2].file.bytes
       /\ uploads[up.id].uploadParts[1].name
              = form.chunks[Len(form.chunks)].file.name

\* entry x of the map m is in the map after the step as it was, or had
\* expired at the time of the step and is gone
KeptOrExpired(m, mNext, x) ==
    IF now > m[x].expiresAt
    THEN x \notin DOMAIN mNext \/ mNext[x] = m[x]
    ELSE x \in DOMAIN mNext /\ mNext[x] = m[x]

\* C33: a loginStep1 call whose select found no Identity Record returns
\* success = false; a call that returns success = false has stored no
\* challenge; a call that returns success = true has stored exactly one new
\* challenge, under a sessionId that was in no map before, with the V of the
\* request, c in 1..q-1 and expiry = current time + 5 minutes, and has left
\* every other challenge, every session and the Identity Record as they were,
\* apart from expired challenges and sessions, which may be gone.
C33_LoginStep1Effect ==
    [][\A i \in Slots :
          Returns(i, "loginStep1") =>
              LET ret == calls'[i].ret[1] IN
              /\ (calls[i].pc = "selected" /\ calls[i].rows = <<>>)
                     => ~ret.success
              /\ loginParameter' = loginParameter
              /\ ~ret.success =>
                     /\ loginChallenges' = loginChallenges
                     /\ sessions' = sessions
              /\ ret.success =>
                     /\ calls[i].rows # <<>>
                     /\ DOMAIN loginChallenges' \ DOMAIN loginChallenges
                            = {ret.sessionId}
                     /\ ret.sessionId \notin 1..nSessionIds
                     /\ loginChallenges'[ret.sessionId].c
                            \in 1..(getPublicParameters.q - 1)
                     /\ ret.challenge
                            = toString(loginChallenges'[ret.sessionId].c)
                     /\ loginChallenges'[ret.sessionId].V
                            = BigInt(calls[i].arg).v
                     /\ loginChallenges'[ret.sessionId].expiresAt
                            = now + CHALLENGE_EXPIRY_MS
                     /\ \A x \in DOMAIN loginChallenges :
                            KeptOrExpired(loginChallenges, loginChallenges', x)
                     /\ \A t \in DOMAIN sessions :
                            KeptOrExpired(sessions, sessions', t)
                     /\ DOMAIN sessions' \subseteq DOMAIN sessions
      ]_vars

\* a loginStep1 call has returned success with its challenge stored beside
\* another that has not expired, the clock having advanced
C33_Witness ==
    \E i \in Slots :
        /\ Returned(i, "loginStep1")
        /\ calls[i].ret[1].success
        /\ calls[i].ret[1].sessionId \in DOMAIN loginChallenges
        /\ Cardinality(DOMAIN loginChallenges) = 2
        /\ now > 0
        /\ \A x \in DOMAIN loginChallenges : ~(now > loginChallenges[x].expiresAt)

\* the errors of requireAuth
AuthErrors == {"Authentication required", "Invalid or expired session"}

\* C34: a call of UploadEncrypted, DeleteFile, GetAllFiles or GetFile with a
\* session token that is absent, unknown, logged out or expired fails with
\* an error of requireAuth and neither reads nor writes a row of uploads or a
\* stored file.
C34_FileActionsRequireAuth ==
    [][\A t \in TokenInputs : \A id \in 1..MaxBlobs + 1 :
          ~Valid(t) =>
              /\ (up.pc = "idle" /\ up'.pc # "idle" /\ up'.token = t)
                     => /\ up'.pc = "failed"
                        /\ up'.error \in AuthErrors
                        /\ up'.results = <<>>
                        /\ blobs' = blobs /\ uploads' = uploads
              /\ DeleteFileCall(id, t)
                     => /\ del'.pc = "threw"
                        /\ del'.error \in AuthErrors
                        /\ del'.tasks = <<>>
                        /\ blobs' = blobs /\ uploads' = uploads
              /\ GetAllFilesCall(t)
                     => /\ get'.pc = "threw"
                        /\ get'.error \in AuthErrors
                        /\ get'.rows = <<>>
                        /\ blobs' = blobs /\ uploads' = uploads
              /\ GetFileCall(id, t)
                     => /\ get'.pc = "threw"
                        /\ get'.error \in AuthErrors
                        /\ get'.rows = <<>>
                        /\ blobs' = blobs /\ uploads' = uploads
      ]_vars

\* the stored file under key k is that of a descriptor of some row of uploads
Referenced(k) ==
    \E id \in 1..Len(uploads) :
        \E i \in 1..Len(uploads[id].uploadParts) :
            uploads[id].uploadParts[i].key = k

\* C35: no orphaned blobs.  When no call of UploadEncrypted has puts under
\* way, and so after every call that threw, every file held by a storage
\* backend is referenced by a row of uploads (rows altered from outside the
\* program set aside).
C35_NoOrphanedBlobs ==
    (/\ up.pc \in {"idle", "done", "failed"}
     /\ \A id \in 1..Len(uploads) : ~sent[id].touched)
    => \A k \in 1..Len(blobs) : ~blobs[k].deleted => Referenced(k)

\* C36: whatever the interleaving of changePassphrase and loginStep2 calls,
\* once changePassphrase has returned success the sessions map holds no token
\* minted by a proof verified against the old public key: a loginStep2 call
\* that mints a token while no changePassphrase call is in flight has
\* verified the proof against the key the Identity Record holds.
C36_NoSessionOnOldKey ==
    [][\A i \in Slots :
          (/\ Returns(i, "loginStep2")
           /\ calls'[i].ret[1].success
           /\ calls'[i].ret[1].sessionToken \in DOMAIN sessions'
           /\ \A j \in Slots : calls[j].op # "changePassphrase")
          => /\ loginParameter # <<>>
             /\ calls[i].rows[1].publicKey = loginParameter[1].publicKey
      ]_vars

\* C37: for every row of uploads and every descriptor index i, the deletion
\* DeleteFile starts for the key of descriptor i is addressed to the backend
\* to which UploadEncrypted put chunk i, the one that holds that key.
C37_DeleteOnUploadBackend ==
    del.pc \in {"delete", "returned"} =>
        \A k \in 1..Len(del.tasks) :
            /\ del.tasks[k].key \in 1..Len(blobs)
            /\ del.tasks[k].server = blobs[del.tasks[k].key].server
            /\ del.tasks[k].server = k - 1
            /\ del.tasks[k].state = "deleted" => blobs[del.tasks[k].key].deleted

\* DeleteFile has started the deletions of an upload of several chunks whose
\* puts were not answered in the order of the indices; the second chunk is
\* deleted
C37_Witness ==
    /\ del.pc \in {"delete", "returned"}
    /\ Len(del.tasks) >= 2
    /\ del.tasks[1].key > del.tasks[2].key
    /\ del.tasks[2].state = "deleted"
    /\ blobs[del.tasks[2].key].deleted
    /\ ~blobs[del.tasks[1].key].deleted

\* C38: logout(token) removes at most the session of that token: after it the
\* token has no session, every other session is there with the expiry it
\* had, no session is added, the pending challenges and the Identity Record
\* are what they were, and a logout of a token that has no session changes
\* nothing.
C38_LogoutFrame ==
    [][\A t \in TokenInputs \ {NoToken} :
          Logout(t) =>
              /\ t \notin DOMAIN sessions'
              /\ DOMAIN sessions' \subseteq DOMAIN sessions
              /\ \A u \in DOMAIN sessions \ {t} :
                     u \in DOMAIN sessions' /\ sessions'[u] = sessions[u]
              /\ loginChallenges' = loginChallenges
              /\ loginParameter' = loginParameter
              /\ t \notin DOMAIN sessions => UNCHANGED vars
      ]_vars

\* two tokens were minted and only the first has a session: the second was
\* logged out, since expiry and changePassphrase take the first with it
C38_Witness ==
    /\ Len(minted) = 2
    /\ DOMAIN sessions = {1}
    /\ ~(now > sessions[1].expiresAt)

\* C39: the expiry of a session is fixed when it is minted, at the time of
\* the mint + 24 hours: a step that adds a session adds it under a token that
\* never had one, with that expiry, and no step changes the expiry of a
\* session that stays in the map.
C39_ExpiryFixedAtMint ==
    [][/\ \A t \in DOMAIN sessions' \ DOMAIN sessions :
              /\ sessions'[t].expiresAt = now + SESSION_EXPIRY_MS
              /\ t \notin DOMAIN minted
              /\ t \in DOMAIN minted'
       /\ \A t \in DOMAIN sessions \cap DOMAIN sessions' :
              sessions'[t] = sessions[t]
      ]_vars

\* two sessions minted at different times are in the map, each with the
\* expiry of its mint, the clock having advanced since the first
C39_Witness ==
    /\ DOMAIN sessions = {1, 2}
    /\ sessions[1].expiresAt = SESSION_EXPIRY_MS
    /\ sessions[2].expiresAt = CHALLENGE_EXPIRY_MS + SESSION_EXPIRY_MS
    /\ now = CHALLENGE_EXPIRY_MS

===========================================================================
